---- MODULE Spec2Model ----
(***************************************************************************)
(* EKiBEN agent: the message dispatcher (internal/agent), the direct-SQL   *)
(* query engine (internal/db/db.go) and the REST query engine (APIClient), *)
(* together with the connection loop that feeds the dispatcher.            *)
(***************************************************************************)
EXTENDS Integers, Sequences, FiniteSets, TLC

\* ------------------------------------------------------------------------
\* Bounds of the model
\* ------------------------------------------------------------------------
\* identifiers (projection columns + filter keys + orderBy items + values
\* keys) one generated table request may carry
MaxIdents == 2
\* positional arguments of a generated named-query request
MaxArgs == 1
\* pages the upstream /api/Users listing may report
MaxPages == 2
\* connection attempts of one run of the agent
MaxConns == 2
\* largest movie_id / danId a request may name
MaxFileId == 1
\* rows the upstream may return for one table.select
MaxRows == 3
\* frames one connection carries before the controller falls silent
MaxFrames == 3

\* ------------------------------------------------------------------------
\* JSON values (encoding/json decoding into `any`) and Go strings.
\* A string value is a sequence of one-character strings so that trimming,
\* parsing and formatting are computed, not assumed.
\* ------------------------------------------------------------------------
Nil == [t |-> "nil", n |-> 0, frac |-> FALSE, s |-> <<>>]
Num(i) == [t |-> "f64", n |-> i, frac |-> FALSE, s |-> <<>>]
NumHalf(i) == [t |-> "f64", n |-> i, frac |-> TRUE, s |-> <<>>]
Int64(i) == [t |-> "i64", n |-> i, frac |-> FALSE, s |-> <<>>]
GoInt(i) == [t |-> "int", n |-> i, frac |-> FALSE, s |-> <<>>]
Str(cs) == [t |-> "str", n |-> 0, frac |-> FALSE, s |-> cs]

Digits == <<"0", "1", "2", "3", "4", "5", "6", "7", "8", "9">>

IsDigit(c) == \E i \in 1..Len(Digits) : Digits[i] = c

DigitVal(c) == (CHOOSE i \in 1..Len(Digits) : Digits[i] = c) - 1

RECURSIVE Itoa(_)
Itoa(n) ==
    IF n < 0 THEN <<"-">> \o Itoa(0 - n)
    ELSE IF n < 10 THEN <<Digits[n + 1]>>
    ELSE Itoa(n \div 10) \o <<Digits[(n % 10) + 1]>>

RECURSIVE CharsToStr(_)
CharsToStr(cs) == IF cs = <<>> THEN "" ELSE Head(cs) \o CharsToStr(Tail(cs))

RECURSIVE TrimLeft(_)
TrimLeft(cs) == IF cs # <<>> /\ Head(cs) = " " THEN TrimLeft(Tail(cs)) ELSE cs

RECURSIVE TrimRight(_)
TrimRight(cs) ==
    IF cs # <<>> /\ cs[Len(cs)] = " " THEN TrimRight(SubSeq(cs, 1, Len(cs) - 1)) ELSE cs

\* strings.TrimSpace
TrimSpace(cs) == TrimRight(TrimLeft(cs))

RECURSIVE DigitsValue(_, _)
DigitsValue(cs, acc) ==
    IF cs = <<>> THEN acc ELSE DigitsValue(Tail(cs), acc * 10 + DigitVal(Head(cs)))

\* strconv.Atoi: an optional sign followed by at least one digit, nothing else
Atoi(cs) ==
    LET body == IF cs # <<>> /\ Head(cs) \in {"-", "+"} THEN Tail(cs) ELSE cs
        neg == cs # <<>> /\ Head(cs) = "-"
    IN  IF body = <<>> \/ \E i \in 1..Len(body) : ~IsDigit(body[i])
        THEN [ok |-> FALSE, v |-> 0]
        ELSE [ok |-> TRUE, v |-> IF neg THEN 0 - DigitsValue(body, 0) ELSE DigitsValue(body, 0)]

\* fmt.Sprintf("%v", value)
FmtV(v) ==
    CASE v.t = "nil" -> <<"<", "n", "i", "l", ">">>
      [] v.t = "str" -> v.s
      [] OTHER -> IF v.frac THEN Itoa(v.n) \o <<".", "5">> ELSE Itoa(v.n)

\* a map lookup m[k]: the zero value (nil) when the key is absent or the map is nil
MapGet(m, k) == IF k \in DOMAIN m THEN m[k] ELSE Nil

\* *int parameters (limit, offset): absent or a value
NoInt == [set |-> FALSE, v |-> 0]
SomeInt(i) == [set |-> TRUE, v |-> i]

\* ------------------------------------------------------------------------
\* Schema registry
\* ------------------------------------------------------------------------
Queries ==
    [get_user_by_baid |->
        [SQL |-> "SELECT * FROM UserData WHERE Baid = ? LIMIT 1", ReadOnly |-> TRUE],
     list_cards |->
        [SQL |-> "SELECT AccessCode, Baid FROM Card ORDER BY Baid", ReadOnly |-> TRUE],
     list_song_best_by_baid |->
        [SQL |-> "SELECT * FROM SongBestData WHERE Baid = ? LIMIT ?", ReadOnly |-> TRUE],
     update_user_name |->
        [SQL |-> "UPDATE UserData SET MyDonName = ? WHERE Baid = ?", ReadOnly |-> FALSE]]

TableSchemas ==
    [UserData |->
        {"Baid", "AchievementDisplayDifficulty", "AiWinCount", "ColorBody", "ColorFace",
         "ColorLimb", "CostumeData", "CostumeFlgArray", "DifficultyPlayedArray",
         "DifficultySettingArray", "DisplayAchievement", "DisplayDan", "FavoriteSongsArray",
         "GenericInfoFlgArray", "IsAdmin", "IsSkipOn", "IsVoiceOn", "LastPlayDatetime",
         "LastPlayMode", "MyDonName", "MyDonNameLanguage", "NotesPosition", "OptionSetting",
         "SelectedToneId", "Title", "TitleFlgArray", "TitlePlateId", "ToneFlgArray",
         "UnlockedSongIdList", "UnlockedBody", "UnlockedFace", "UnlockedHead",
         "UnlockedKigurumi", "UnlockedPuchi", "CurrentBody", "CurrentFace", "CurrentHead",
         "CurrentKigurumi", "CurrentPuchi", "DifficultyPlayedCourse", "DifficultyPlayedSort",
         "DifficultyPlayedStar", "DifficultySettingCourse", "DifficultySettingSort",
         "DifficultySettingStar", "UnlockedUraSongIdList"},
     Credential |-> {"Baid", "Password", "Salt"},
     Card |-> {"AccessCode", "Baid"},
     Tokens |-> {"Baid", "Id", "Count"},
     SongPlayData |->
        {"Id", "Baid", "ComboCount", "Crown", "Difficulty", "DrumrollCount", "GoodCount",
         "HitCount", "MissCount", "OkCount", "PlayTime", "Score", "ScoreRank", "ScoreRate",
         "Skipped", "SongId", "SongNumber"},
     SongBestData |->
        {"Baid", "SongId", "Difficulty", "BestCrown", "BestRate", "BestScore", "BestScoreRank"},
     AiScoreData |-> {"Baid", "SongId", "Difficulty", "IsWin"},
     AiSectionScoreData |->
        {"Baid", "SongId", "Difficulty", "SectionIndex", "Crown", "IsWin", "Score",
         "GoodCount", "OkCount", "MissCount", "DrumrollCount"},
     DanScoreData |->
        {"Baid", "DanId", "DanType", "ArrivalSongCount", "ClearState", "ComboCountTotal",
         "SoulGaugeTotal"},
     DanStageScoreData |->
        {"Baid", "DanId", "DanType", "SongNumber", "BadCount", "ComboCount", "DrumrollCount",
         "GoodCount", "HighScore", "OkCount", "PlayScore", "TotalHitCount"},
     sqlite_sequence |-> {"name", "seq"},
     __EFMigrationsHistory |-> {"MigrationId", "ProductVersion"}]

\* the lookup `allowed, ok := TableSchemas[table]`
TableKnown(table) == table \in DOMAIN TableSchemas

AllowedSet(table) == TableSchemas[table]

\* ------------------------------------------------------------------------
\* Names a generated request may use, in the byte order sort.Strings gives
\* ------------------------------------------------------------------------
ColPool == <<"AccessCode", "Baid", "Bogus">>

ColNames == {ColPool[i] : i \in 1..Len(ColPool)}

ColRank(c) == CHOOSE i \in 1..Len(ColPool) : ColPool[i] = c

\* sort.Strings over the keys of a map
SortedKeys(m) ==
    LET ks == DOMAIN m
    IN  CHOOSE q \in [1..Cardinality(ks) -> ks] :
            /\ \A i, j \in 1..Cardinality(ks) : i < j => ColRank(q[i]) < ColRank(q[j])

\* strings.Join
RECURSIVE Join(_, _)
Join(parts, sep) ==
    IF parts = <<>> THEN ""
    ELSE IF Len(parts) = 1 THEN parts[1]
    ELSE parts[1] \o sep \o Join(Tail(parts), sep)

\* ------------------------------------------------------------------------
\* Outcome of the validation half of an engine operation: either the
\* operation is rejected with an error message, or exactly one backend call
\* is issued (`fin` names how the call's success is turned into a result).
\* ------------------------------------------------------------------------
Reject(msg) == [kind |-> "reject", msg |-> msg]

IssueCall(c, fin) == [kind |-> "call", call |-> c, fin |-> fin]

SQLCall(api, verb, table, sql, whereSQL, args) ==
    [api |-> api, verb |-> verb, table |-> table, sql |-> sql, whereSQL |-> whereSQL,
     args |-> args]

\* ------------------------------------------------------------------------
\* Direct-SQL engine (db.go)
\* ------------------------------------------------------------------------
\* names in the registry hold no quote character, so ReplaceAll changes nothing
quoteIdent(name) == "\"" \o name \o "\""

normalizeArgs(args) ==
    [i \in 1..Len(args) |->
        IF args[i].t = "f64" /\ ~args[i].frac THEN Int64(args[i].n) ELSE args[i]]

\* index of the first element of a sequence of names that is not allowed, 0 if none
FirstUnknown(names, allowed) ==
    IF \E i \in 1..Len(names) : names[i] \notin allowed
    THEN CHOOSE i \in 1..Len(names) :
            /\ names[i] \notin allowed
            /\ \A j \in 1..(i - 1) : names[j] \in allowed
    ELSE 0

validateTableAndColumns(table, columns) ==
    IF ~TableKnown(table) THEN [ok |-> FALSE, err |-> "unknown table: " \o table, cols |-> <<>>]
    ELSE IF Len(columns) = 0 THEN [ok |-> TRUE, err |-> "", cols |-> <<>>]
    ELSE LET bad == FirstUnknown(columns, AllowedSet(table))
         IN  IF bad # 0
             THEN [ok |-> FALSE, err |-> "unknown column: " \o columns[bad], cols |-> <<>>]
             ELSE [ok |-> TRUE, err |-> "",
                   cols |-> [i \in 1..Len(columns) |-> quoteIdent(columns[i])]]

\* faulty variant: buildWhere that splices filter keys without looking them up
buildWhereNoLookup(table, filters) ==
    IF Cardinality(DOMAIN filters) = 0 THEN [ok |-> TRUE, err |-> "", sql |-> "", args |-> <<>>]
    ELSE LET keys == SortedKeys(filters)
         IN  [ok |-> TRUE, err |-> "",
              sql |-> " WHERE " \o
                      Join([i \in 1..Len(keys) |-> quoteIdent(keys[i]) \o " = ?"], " AND "),
              args |-> [i \in 1..Len(keys) |-> filters[keys[i]]]]

\* faulty variant: buildWhere that visits the keys in the opposite order
buildWhereLastKey(table, filters) ==
    IF Cardinality(DOMAIN filters) = 0 THEN [ok |-> TRUE, err |-> "", sql |-> "", args |-> <<>>]
    ELSE IF ~TableKnown(table)
    THEN [ok |-> FALSE, err |-> "unknown table: " \o table, sql |-> "", args |-> <<>>]
    ELSE LET sorted == SortedKeys(filters)
             keys == [i \in 1..Len(sorted) |-> sorted[Len(sorted) + 1 - i]]
             bad == FirstUnknown(keys, AllowedSet(table))
         IN  IF bad # 0
             THEN [ok |-> FALSE, err |-> "unknown column: " \o keys[bad], sql |-> "",
                   args |-> <<>>]
             ELSE [ok |-> TRUE, err |-> "",
                   sql |-> " WHERE " \o
                           Join([i \in 1..Len(keys) |-> quoteIdent(keys[i]) \o " = ?"], " AND "),
                   args |-> [i \in 1..Len(keys) |-> filters[keys[i]]]]

buildWhere(table, filters) ==
    IF Cardinality(DOMAIN filters) = 0 THEN [ok |-> TRUE, err |-> "", sql |-> "", args |-> <<>>]
    ELSE IF ~TableKnown(table)
    THEN [ok |-> FALSE, err |-> "unknown table: " \o table, sql |-> "", args |-> <<>>]
    ELSE LET keys == SortedKeys(filters)
             bad == FirstUnknown(keys, AllowedSet(table))
         IN  IF bad # 0
             THEN [ok |-> FALSE, err |-> "unknown column: " \o keys[bad], sql |-> "",
                   args |-> <<>>]
             ELSE [ok |-> TRUE, err |-> "",
                   sql |-> " WHERE " \o
                           Join([i \in 1..Len(keys) |-> quoteIdent(keys[i]) \o " = ?"], " AND "),
                   args |-> [i \in 1..Len(keys) |-> filters[keys[i]]]]

buildOrderBy(table, orderBy) ==
    IF Len(orderBy) = 0 THEN [ok |-> TRUE, err |-> "", sql |-> ""]
    ELSE IF ~TableKnown(table)
    THEN [ok |-> FALSE, err |-> "unknown table: " \o table, sql |-> ""]
    ELSE LET cols == [i \in 1..Len(orderBy) |-> orderBy[i].Column]
             bad == FirstUnknown(cols, AllowedSet(table))
         IN  IF bad # 0
             THEN [ok |-> FALSE, err |-> "unknown column: " \o cols[bad], sql |-> ""]
             ELSE [ok |-> TRUE, err |-> "",
                   sql |-> " ORDER BY " \o
                           Join([i \in 1..Len(orderBy) |->
                                    quoteIdent(orderBy[i].Column) \o " " \o
                                    (IF orderBy[i].Desc THEN "DESC" ELSE "ASC")], ", ")]

buildInsert(table, values) ==
    IF Cardinality(DOMAIN values) = 0
    THEN [ok |-> FALSE, err |-> "insert requires values", cols |-> <<>>, args |-> <<>>]
    ELSE IF ~TableKnown(table)
    THEN [ok |-> FALSE, err |-> "unknown table: " \o table, cols |-> <<>>, args |-> <<>>]
    ELSE LET keys == SortedKeys(values)
             bad == FirstUnknown(keys, AllowedSet(table))
         IN  IF bad # 0
             THEN [ok |-> FALSE, err |-> "unknown column: " \o keys[bad], cols |-> <<>>,
                   args |-> <<>>]
             ELSE [ok |-> TRUE, err |-> "",
                   cols |-> [i \in 1..Len(keys) |-> quoteIdent(keys[i])],
                   args |-> [i \in 1..Len(keys) |-> values[keys[i]]]]

buildSet(table, values) ==
    IF Cardinality(DOMAIN values) = 0
    THEN [ok |-> FALSE, err |-> "update requires values", sql |-> "", args |-> <<>>]
    ELSE IF ~TableKnown(table)
    THEN [ok |-> FALSE, err |-> "unknown table: " \o table, sql |-> "", args |-> <<>>]
    ELSE LET keys == SortedKeys(values)
             bad == FirstUnknown(keys, AllowedSet(table))
         IN  IF bad # 0
             THEN [ok |-> FALSE, err |-> "unknown column: " \o keys[bad], sql |-> "",
                   args |-> <<>>]
             ELSE [ok |-> TRUE, err |-> "",
                   sql |-> Join([i \in 1..Len(keys) |-> quoteIdent(keys[i]) \o " = ?"], ", "),
                   args |-> [i \in 1..Len(keys) |-> values[keys[i]]]]

\* faulty variant: a query method that executes an unregistered name as SQL
QueryNamedRaw(name, args, allowWrite) ==
    IF name \notin DOMAIN Queries
    THEN IssueCall(SQLCall("ExecContext", "NAMED", name, name, "", normalizeArgs(args)),
                   "affected+lastId")
    ELSE LET q == Queries[name]
         IN  IF ~q.ReadOnly /\ ~allowWrite THEN Reject("write queries disabled")
             ELSE IF q.ReadOnly
             THEN IssueCall(SQLCall("QueryContext", "NAMED", name, q.SQL, "", normalizeArgs(args)),
                            "rows")
             ELSE IssueCall(SQLCall("ExecContext", "NAMED", name, q.SQL, "", normalizeArgs(args)),
                            "affected+lastId")

QueryNamed(name, args, allowWrite) ==
    IF name \notin DOMAIN Queries THEN Reject("unknown query: " \o name)
    ELSE LET q == Queries[name]
         IN  IF ~q.ReadOnly /\ ~allowWrite THEN Reject("write queries disabled")
             ELSE IF q.ReadOnly
             THEN IssueCall(SQLCall("QueryContext", "NAMED", name, q.SQL, "", normalizeArgs(args)),
                            "rows")
             ELSE IssueCall(SQLCall("ExecContext", "NAMED", name, q.SQL, "", normalizeArgs(args)),
                            "affected+lastId")

TableSelect(table, columns, filters, orderBy, limit, offset) ==
    LET v == validateTableAndColumns(table, columns)
        w == buildWhere(table, filters)
        o == buildOrderBy(table, orderBy)
        selectCols == IF Len(v.cols) > 0 THEN Join(v.cols, ", ") ELSE "*"
        limitSQL == (IF limit.set THEN " LIMIT ?" ELSE "") \o
                    (IF offset.set THEN " OFFSET ?" ELSE "")
        args == w.args \o (IF limit.set THEN <<GoInt(limit.v)>> ELSE <<>>)
                       \o (IF offset.set THEN <<GoInt(offset.v)>> ELSE <<>>)
    IN  IF ~v.ok THEN Reject(v.err)
        ELSE IF ~w.ok THEN Reject(w.err)
        ELSE IF ~o.ok THEN Reject(o.err)
        ELSE IssueCall(SQLCall("QueryContext", "SELECT", table,
                               "SELECT " \o selectCols \o " FROM " \o quoteIdent(table)
                                   \o w.sql \o o.sql \o limitSQL,
                               w.sql, args),
                       "rows")

TableInsert(table, values, allowWrite) ==
    IF ~allowWrite THEN Reject("write queries disabled")
    ELSE LET b == buildInsert(table, values)
             placeholders == [i \in 1..Len(b.cols) |-> "?"]
         IN  IF ~b.ok THEN Reject(b.err)
             ELSE IssueCall(SQLCall("ExecContext", "INSERT", table,
                                    "INSERT INTO " \o quoteIdent(table) \o " ("
                                        \o Join(b.cols, ", ") \o ") VALUES ("
                                        \o Join(placeholders, ", ") \o ")",
                                    "", normalizeArgs(b.args)),
                            "affected+lastId")

\* faulty variant: TableUpdate that accepts an empty WHERE clause
TableUpdateNoFilterCheck(table, values, filters, allowWrite) ==
    IF ~allowWrite THEN Reject("write queries disabled")
    ELSE LET s == buildSet(table, values)
             w == buildWhere(table, filters)
         IN  IF ~s.ok THEN Reject(s.err)
             ELSE IF ~w.ok THEN Reject(w.err)
             ELSE IssueCall(SQLCall("ExecContext", "UPDATE", table,
                                    "UPDATE " \o quoteIdent(table) \o " SET " \o s.sql \o w.sql,
                                    w.sql, normalizeArgs(s.args \o w.args)),
                            "affected")

TableUpdate(table, values, filters, allowWrite) ==
    IF ~allowWrite THEN Reject("write queries disabled")
    ELSE LET s == buildSet(table, values)
             w == buildWhere(table, filters)
         IN  IF ~s.ok THEN Reject(s.err)
             ELSE IF ~w.ok THEN Reject(w.err)
             ELSE IF w.sql = "" THEN Reject("update requires filters")
             ELSE IssueCall(SQLCall("ExecContext", "UPDATE", table,
                                    "UPDATE " \o quoteIdent(table) \o " SET " \o s.sql \o w.sql,
                                    w.sql, normalizeArgs(s.args \o w.args)),
                            "affected")

\* faulty variant: TableDelete that ignores allowWrite
TableDeleteNoGate(table, filters, allowWrite) ==
    LET w == buildWhere(table, filters)
    IN  IF ~w.ok THEN Reject(w.err)
        ELSE IF w.sql = "" THEN Reject("delete requires filters")
        ELSE IssueCall(SQLCall("ExecContext", "DELETE", table,
                               "DELETE FROM " \o quoteIdent(table) \o w.sql,
                               w.sql, normalizeArgs(w.args)),
                       "affected")

TableDelete(table, filters, allowWrite) ==
    IF ~allowWrite THEN Reject("write queries disabled")
    ELSE LET w == buildWhere(table, filters)
         IN  IF ~w.ok THEN Reject(w.err)
             ELSE IF w.sql = "" THEN Reject("delete requires filters")
             ELSE IssueCall(SQLCall("ExecContext", "DELETE", table,
                                    "DELETE FROM " \o quoteIdent(table) \o w.sql,
                                    w.sql, normalizeArgs(w.args)),
                            "affected")

\* ------------------------------------------------------------------------
\* REST engine (APIClient)
\* ------------------------------------------------------------------------
\* url.PathEscape on the characters a generated access code may hold
PathEscape(cs) ==
    Join([i \in 1..Len(cs) |->
            CASE cs[i] = " " -> "%20"
              [] cs[i] = "<" -> "%3C"
              [] cs[i] = ">" -> "%3E"
              [] OTHER -> cs[i]], "")

\* one upstream request, as doJSON sends it
HTTPCall(verb, path, body) == [api |-> "HTTP", verb |-> verb, path |-> path, body |-> body]

NoBody == [baid |-> 0, accessCode |-> <<>>, set |-> FALSE]

anyToInt(v) ==
    CASE v.t \in {"int", "i64", "f64"} -> [ok |-> TRUE, v |-> v.n, err |-> ""]
      [] v.t = "str" ->
            LET a == Atoi(TrimSpace(v.s))
            IN  IF a.ok THEN [ok |-> TRUE, v |-> a.v, err |-> ""]
                ELSE [ok |-> FALSE, v |-> 0, err |-> "invalid int: " \o CharsToStr(FmtV(v))]
      [] OTHER -> [ok |-> FALSE, v |-> 0, err |-> "invalid int: " \o CharsToStr(FmtV(v))]

anyToIntNoError(v) == anyToInt(v)

intArg(args, idx, name) ==
    IF idx >= Len(args) THEN [ok |-> FALSE, v |-> 0, err |-> "missing arg: " \o name]
    ELSE anyToInt(args[idx + 1])

filterInt(filters, key) ==
    IF Cardinality(DOMAIN filters) = 0 THEN [ok |-> FALSE, v |-> 0]
    ELSE IF key \notin DOMAIN filters THEN [ok |-> FALSE, v |-> 0]
    ELSE LET a == anyToInt(filters[key]) IN [ok |-> a.ok, v |-> a.v]

BaidPath(prefix, baid) == prefix \o CharsToStr(Itoa(baid))

\* first request of the paginated listing
listCards == IssueCall(HTTPCall("GET", "/api/Users?page=1&limit=200", NoBody), "listCards")

songBestRows(baid) == IssueCall(HTTPCall("GET", BaidPath("/api/PlayData/", baid), NoBody), "rows")

playHistoryRows(baid) ==
    IssueCall(HTTPCall("GET", BaidPath("/api/PlayHistory/", baid), NoBody), "rows")

cardsByBaid(baid) == IssueCall(HTTPCall("GET", BaidPath("/api/Users/", baid), NoBody), "rows")

APIQueryNamed(name, args, allowWrite) ==
    CASE name = "get_user_by_baid" ->
            LET b == intArg(args, 0, "baid")
            IN  IF ~b.ok THEN Reject(b.err)
                ELSE IssueCall(HTTPCall("GET", BaidPath("/api/Users/", b.v), NoBody), "rows")
      [] name = "list_cards" -> listCards
      [] name = "list_song_best_by_baid" ->
            LET b == intArg(args, 0, "baid")
            IN  IF ~b.ok THEN Reject(b.err) ELSE songBestRows(b.v)
      [] name = "update_user_name" ->
            IF ~allowWrite THEN Reject("write queries disabled")
            ELSE Reject("query not supported in api mode: update_user_name")
      [] OTHER -> Reject("unknown query: " \o name)

tableRows(table, filters) ==
    LET b == filterInt(filters, "Baid")
    IN  CASE table = "UserData" ->
                IF ~b.ok THEN Reject("UserData table.select requires Baid filter in api mode")
                ELSE IssueCall(HTTPCall("GET", BaidPath("/api/UserSettings/", b.v), NoBody),
                               "rows")
          [] table = "SongBestData" ->
                IF ~b.ok THEN Reject("SongBestData table.select requires Baid filter in api mode")
                ELSE songBestRows(b.v)
          [] table = "SongPlayData" ->
                IF ~b.ok THEN Reject("SongPlayData table.select requires Baid filter in api mode")
                ELSE playHistoryRows(b.v)
          [] table = "Card" -> IF b.ok THEN cardsByBaid(b.v) ELSE listCards
          [] OTHER -> Reject("table.select not supported in api mode for table: " \o table)

\* faulty variant: a REST select that silently ignores orderBy
APITableSelectIgnoreOrder(table, columns, filters, orderBy, limit, offset) ==
    tableRows(table, filters)

APITableSelect(table, columns, filters, orderBy, limit, offset) ==
    IF Len(orderBy) > 0 THEN Reject("orderBy is not supported in api mode")
    ELSE tableRows(table, filters)

APITableInsert(table, values, allowWrite) ==
    IF ~allowWrite THEN Reject("write queries disabled")
    ELSE IF table = "Card"
    THEN LET b == anyToIntNoError(MapGet(values, "Baid"))
             accessCode == TrimSpace(FmtV(MapGet(values, "AccessCode")))
         IN  IF ~b.ok THEN Reject("Card insert requires Baid")
             ELSE IF accessCode = <<>> THEN Reject("Card insert requires AccessCode")
             ELSE IssueCall(HTTPCall("POST", "/api/Cards/BindAccessCode",
                                     [baid |-> b.v, accessCode |-> accessCode, set |-> TRUE]),
                            "affected+lastId")
    ELSE Reject("table.insert not supported in api mode for table: " \o table)

\* faulty variant: a REST update emulated through the user settings endpoint
APITableUpdateEmulated(table, values, filters, allowWrite) ==
    IF ~allowWrite THEN Reject("write queries disabled")
    ELSE IssueCall(HTTPCall("POST", "/api/UserSettings/" \o table, NoBody), "affected")

APITableUpdate(table, values, filters, allowWrite) ==
    IF ~allowWrite THEN Reject("write queries disabled")
    ELSE Reject("table.update not supported in api mode for table: " \o table)

APITableDelete(table, filters, allowWrite) ==
    IF ~allowWrite THEN Reject("write queries disabled")
    ELSE IF table = "Card"
    THEN LET accessCode == TrimSpace(FmtV(MapGet(filters, "AccessCode")))
         IN  IF accessCode = <<>> THEN Reject("Card delete requires AccessCode filter")
             ELSE IssueCall(HTTPCall("DELETE", "/api/Cards/" \o PathEscape(accessCode), NoBody),
                            "affected")
    ELSE Reject("table.delete not supported in api mode for table: " \o table)

\* for key, expected := range filters { if Sprintf(row[key]) != Sprintf(expected)
\* { ok = false; break } }: order is the sequence in which the range statement
\* yields the keys of the map
RECURSIVE rowMatches(_, _, _)
rowMatches(row, filters, order) ==
    IF order = <<>> THEN TRUE
    ELSE IF FmtV(MapGet(row, Head(order))) # FmtV(filters[Head(order)]) THEN FALSE
    ELSE rowMatches(row, filters, Tail(order))

\* the loop over rows of applyFilterRows, appending to result
RECURSIVE filterLoop(_, _, _, _)
filterLoop(rows, filters, order, result) ==
    IF rows = <<>> THEN result
    ELSE filterLoop(Tail(rows), filters, order,
                    IF rowMatches(Head(rows), filters, order)
                    THEN Append(result, Head(rows)) ELSE result)

\* faulty variant: a filter that keeps a row when any one key matches
applyFilterRowsAnyKey(rows, filters, order) ==
    IF Cardinality(DOMAIN filters) = 0 THEN rows
    ELSE SelectSeq(rows, LAMBDA row :
            \E k \in DOMAIN filters : FmtV(MapGet(row, k)) = FmtV(filters[k]))

applyFilterRows(rows, filters, order) ==
    IF Cardinality(DOMAIN filters) = 0 THEN rows
    ELSE filterLoop(rows, filters, order, <<>>)

\* item[column] = row[column] for each requested column
applyColumnProjection(rows, columns) ==
    IF Len(columns) = 0 THEN rows
    ELSE [i \in 1..Len(rows) |->
            [c \in {columns[j] : j \in 1..Len(columns)} |-> MapGet(rows[i], c)]]

\* faulty variant: a pagination that takes the limit before it skips the offset
applyOffsetLimitTakeFirst(rows, offset, limit) ==
    LET taken == IF limit.set /\ limit.v >= 0 /\ limit.v < Len(rows)
                 THEN SubSeq(rows, 1, limit.v) ELSE rows
        start == IF offset.set /\ offset.v > 0 THEN offset.v ELSE 0
    IN  IF start >= Len(taken) THEN <<>> ELSE SubSeq(taken, start + 1, Len(taken))

applyOffsetLimit(rows, offset, limit) ==
    LET start == IF offset.set /\ offset.v > 0 THEN offset.v ELSE 0
        rest == SubSeq(rows, start + 1, Len(rows))
    IN  IF start >= Len(rows) THEN <<>>
        ELSE IF limit.set /\ limit.v >= 0 /\ limit.v < Len(rest) THEN SubSeq(rest, 1, limit.v)
        ELSE rest

\* ------------------------------------------------------------------------
\* Agent configuration (config.Config as main hands it to agent.New).
\* Handle: whether the backend handle of the selected source (a.db or a.api)
\* is non-nil.  GOOS: runtime.GOOS of the build.
\* ------------------------------------------------------------------------
Configs ==
    [AllowWrite : BOOLEAN, SourceMode : {"direct", "api"}, Handle : BOOLEAN,
     GOOS : {"windows", "linux"}, ControllerURL : {"wss://controller"}, Token : {"secret"},
     AgentID : {"agent-1"}]

\* ------------------------------------------------------------------------
\* main: the command line, and the backend it sets up before agent.New
\* ------------------------------------------------------------------------
UpperCase ==
    <<"A", "B", "C", "D", "E", "F", "G", "H", "I", "J", "K", "L", "M", "N", "O", "P", "Q", "R",
      "S", "T", "U", "V", "W", "X", "Y", "Z">>

LowerCase ==
    <<"a", "b", "c", "d", "e", "f", "g", "h", "i", "j", "k", "l", "m", "n", "o", "p", "q", "r",
      "s", "t", "u", "v", "w", "x", "y", "z">>

\* strings.ToLower
ToLower(cs) ==
    [i \in 1..Len(cs) |->
        IF \E k \in 1..Len(UpperCase) : UpperCase[k] = cs[i]
        THEN LowerCase[CHOOSE k \in 1..Len(UpperCase) : UpperCase[k] = cs[i]]
        ELSE cs[i]]

\* values of --source as typed
SourceFlags ==
    {<<"d", "i", "r", "e", "c", "t">>, <<" ", "A", "P", "I">>, <<>>, <<"s", "q", "l">>}

\* what config.FromFlags returns, and the platform of the build
Flags ==
    [AllowWrite : BOOLEAN, source : SourceFlags, GOOS : {"windows", "linux"},
     ControllerURL : {"", "wss://controller"}, Token : {"", "secret"},
     AgentID : {"", "agent-1"}]

\* Logger.Fatalf: Sprintf, prefix, Fprintf to the log; then it returns to its
\* caller (exit: the process has ended)
Fatalf(m, msg) == [log |-> Append(m.log, msg), exit |-> FALSE]

\* main from the normalisation of --source to agent.New.  opened: db.Open
\* (direct) or db.NewAPIClient (api) returned a handle and no error
mainSetup(f, opened) ==
    LET source == CharsToStr(TrimSpace(ToLower(f.source)))
        m0 == [log |-> <<>>, exit |-> FALSE]
        m1 == IF source = "" THEN Fatalf(m0, "missing required --source (direct|api)") ELSE m0
        m2 == IF m1.exit THEN m1
              ELSE CASE source = "direct" ->
                            IF opened THEN m1 ELSE Fatalf(m1, "open db: error")
                     [] source = "api" ->
                            IF opened THEN m1 ELSE Fatalf(m1, "configure tls api client: error")
                     [] OTHER -> Fatalf(m1, "invalid --source (expected direct or api)")
    IN  [cfg |-> [AllowWrite |-> f.AllowWrite, SourceMode |-> source,
                  Handle |-> source \in {"direct", "api"} /\ opened, GOOS |-> f.GOOS,
                  ControllerURL |-> f.ControllerURL, Token |-> f.Token, AgentID |-> f.AgentID],
         fatal |-> m2.log, exit |-> m2.exit]

\* the configurations main can hand to agent.New, each with what Fatalf logged
Startups == {mainSetup(f, opened) : f \in Flags, opened \in BOOLEAN}

\* cfg := config.Config{}
NoConfig ==
    [AllowWrite |-> FALSE, SourceMode |-> "", Handle |-> FALSE, GOOS |-> "linux",
     ControllerURL |-> "", Token |-> "", AgentID |-> ""]

\* ------------------------------------------------------------------------
\* Wire envelopes (protocol.Envelope)
\* ------------------------------------------------------------------------
NoParams == [ok |-> FALSE]

\* an inbound frame: dec = the bytes decode as an Envelope
Frame(id, method, params) == [dec |-> TRUE, id |-> id, method |-> method, params |-> params]

Garbage == [dec |-> FALSE, id |-> "", method |-> "", params |-> NoParams]

NoFrame == [dec |-> FALSE, id |-> "-", method |-> "-", params |-> NoParams]

NoResult == [set |-> FALSE, shape |-> ""]

NoError == [set |-> FALSE, Code |-> "", Message |-> ""]

\* faulty variant: a response that does not echo the request id
NewResponseNoID(env) ==
    [Type |-> "response", ID |-> "", Result |-> NoResult, Error |-> NoError]

\* resp := protocol.Envelope{Type: "response", ID: env.ID}
NewResponse(env) ==
    [Type |-> "response", ID |-> env.id, Result |-> NoResult, Error |-> NoError]

NoEnvelope == [Type |-> "", ID |-> "", Result |-> NoResult, Error |-> NoError]

RegisterEnvelope == [Type |-> "register", ID |-> "", Result |-> NoResult, Error |-> NoError]

\* resp.Result = ...
WithResult(resp, shape) == [resp EXCEPT !.Result = [set |-> TRUE, shape |-> shape]]

\* resp.Error = &protocol.Error{Code: ..., Message: ...}
WithError(resp, code, msg) ==
    [resp EXCEPT !.Error = [set |-> TRUE, Code |-> code, Message |-> msg]]

\* ------------------------------------------------------------------------
\* Request parameters
\* ------------------------------------------------------------------------
TableParams(table, columns, filters, orderBy, limit, offset, values) ==
    [ok |-> TRUE, table |-> table, columns |-> columns, filters |-> filters,
     orderBy |-> orderBy, limit |-> limit, offset |-> offset, values |-> values]

QueryParams(name, args) == [ok |-> TRUE, name |-> name, args |-> args]

MovieParams(id, days) == [ok |-> TRUE, MovieID |-> id, EnableDays |-> days]

DanParams(id, entry) == [ok |-> TRUE, DanID |-> id, Entry |-> entry]

ConfigSetParams(config) == [ok |-> TRUE, Config |-> config]

EmptyMap == <<>>

\* ------------------------------------------------------------------------
\* Agent: backend selection (agent.go queryNamed, tableSelect, ...)
\* ------------------------------------------------------------------------
queryNamed(c, name, args) ==
    IF c.SourceMode = "api"
    THEN IF ~c.Handle THEN Reject("api client is not configured")
         ELSE APIQueryNamed(name, args, c.AllowWrite)
    ELSE IF ~c.Handle THEN Reject("database is not configured")
         ELSE QueryNamed(name, args, c.AllowWrite)

tableSelect(c, p) ==
    IF c.SourceMode = "api"
    THEN IF ~c.Handle THEN Reject("api client is not configured")
         ELSE APITableSelect(p.table, p.columns, p.filters, p.orderBy, p.limit, p.offset)
    ELSE IF ~c.Handle THEN Reject("database is not configured")
         ELSE TableSelect(p.table, p.columns, p.filters, p.orderBy, p.limit, p.offset)

tableInsert(c, p) ==
    IF c.SourceMode = "api"
    THEN IF ~c.Handle THEN Reject("api client is not configured")
         ELSE APITableInsert(p.table, p.values, c.AllowWrite)
    ELSE IF ~c.Handle THEN Reject("database is not configured")
         ELSE TableInsert(p.table, p.values, c.AllowWrite)

tableUpdate(c, p) ==
    IF c.SourceMode = "api"
    THEN IF ~c.Handle THEN Reject("api client is not configured")
         ELSE APITableUpdate(p.table, p.values, p.filters, c.AllowWrite)
    ELSE IF ~c.Handle THEN Reject("database is not configured")
         ELSE TableUpdate(p.table, p.values, p.filters, c.AllowWrite)

tableDelete(c, p) ==
    IF c.SourceMode = "api"
    THEN IF ~c.Handle THEN Reject("api client is not configured")
         ELSE APITableDelete(p.table, p.filters, c.AllowWrite)
    ELSE IF ~c.Handle THEN Reject("database is not configured")
         ELSE TableDelete(p.table, p.filters, c.AllowWrite)

\* ------------------------------------------------------------------------
\* JSON side files (movie_data.json, dan_data.json, agent-config.json).
\* files = [movies, dans, config]: the decoded content of each file (a file
\* that does not exist reads as the empty list / map).  io is what the file
\* system does for one handler: "ok", "readErr" (the read fails, or no db
\* path is configured) or "writeErr" (the write fails).
\* ------------------------------------------------------------------------
IOs == {"ok", "readErr", "writeErr"}

FileOK(list, fs, eff) == [ok |-> TRUE, msg |-> "", list |-> list, files |-> fs, effects |-> eff]

FileFail(msg, fs, eff) == [ok |-> FALSE, msg |-> msg, list |-> <<>>, files |-> fs, effects |-> eff]

\* sort.Slice(list, less by key): keys[i] is the key of list[i]
SortByKeys(list, keys) ==
    LET n == Len(list)
        perm == CHOOSE q \in [1..n -> 1..n] :
                    /\ \A i, j \in 1..n : i # j => q[i] # q[j]
                    /\ \A i, j \in 1..n : i < j => keys[q[i]] <= keys[q[j]]
    IN  [i \in 1..n |-> list[perm[i]]]

RemoveAt(list, idx) == SubSeq(list, 1, idx - 1) \o SubSeq(list, idx + 1, Len(list))

\* index of the first element satisfying the test, 0 when there is none
FirstIndex(hits) ==
    IF hits = {} THEN 0 ELSE CHOOSE i \in hits : \A j \in hits : i <= j

readMovieData(fs, io) ==
    IF io = "readErr" THEN FileFail("read movie_data.json failed", fs, <<>>)
    ELSE FileOK(fs.movies, fs, <<>>)

writeMovieData(movies, fs, io) ==
    IF io = "writeErr" THEN FileFail("write movie_data.json failed", fs, <<"writefail:movie_data.json">>)
    ELSE FileOK(movies, [fs EXCEPT !.movies = movies], <<"write:movie_data.json">>)

addMovie(movieID, enableDays, fs, io) ==
    LET r == readMovieData(fs, io)
        movies == r.list
        added == Append(movies, [MovieID |-> movieID, EnableDays |-> enableDays])
        sorted == SortByKeys(added, [i \in 1..Len(added) |-> added[i].MovieID])
    IN  IF ~r.ok THEN r
        ELSE IF \E i \in 1..Len(movies) : movies[i].MovieID = movieID
        THEN FileFail("movie_id already exists", fs, <<>>)
        ELSE writeMovieData(sorted, fs, io)

updateMovie(movieID, enableDays, fs, io) ==
    LET r == readMovieData(fs, io)
        movies == r.list
        idx == FirstIndex({i \in 1..Len(movies) : movies[i].MovieID = movieID})
    IN  IF ~r.ok THEN r
        ELSE IF idx = 0 THEN FileFail("movie_id not found", fs, <<>>)
        ELSE writeMovieData([movies EXCEPT ![idx].EnableDays = enableDays], fs, io)

removeMovie(movieID, fs, io) ==
    LET r == readMovieData(fs, io)
        movies == r.list
        idx == FirstIndex({i \in 1..Len(movies) : movies[i].MovieID = movieID})
    IN  IF ~r.ok THEN r
        ELSE IF idx = 0 THEN FileFail("movie_id not found", fs, <<>>)
        ELSE writeMovieData(RemoveAt(movies, idx), fs, io)

readDanData(fs, io) ==
    IF io = "readErr" THEN FileFail("read dan_data.json failed", fs, <<>>)
    ELSE FileOK(fs.dans, fs, <<>>)

writeDanData(dans, fs, io) ==
    IF io = "writeErr" THEN FileFail("write dan_data.json failed", fs, <<"writefail:dan_data.json">>)
    ELSE FileOK(dans, [fs EXCEPT !.dans = dans], <<"write:dan_data.json">>)

readDanID(entry) ==
    IF "danId" \notin DOMAIN entry THEN [ok |-> FALSE, v |-> 0, err |-> "entry.danId is required"]
    ELSE IF entry["danId"].t \in {"f64", "int", "i64"}
    THEN [ok |-> TRUE, v |-> entry["danId"].n, err |-> ""]
    ELSE [ok |-> FALSE, v |-> 0, err |-> "entry.danId must be an integer"]

\* entryCopy: the entry with danId overwritten, as the file stores it
EntryCopy(entry, danID) ==
    [k \in (DOMAIN entry) \cup {"danId"} |-> IF k = "danId" THEN Num(danID) ELSE entry[k]]

SortDans(dans) == SortByKeys(dans, [i \in 1..Len(dans) |-> readDanID(dans[i]).v])

FindDan(dans, danID) ==
    FirstIndex({i \in 1..Len(dans) : readDanID(dans[i]).ok /\ readDanID(dans[i]).v = danID})

addDan(entry, fs, io) ==
    LET id == readDanID(entry)
        r == readDanData(fs, io)
        dans == r.list
    IN  IF Cardinality(DOMAIN entry) = 0 THEN FileFail("entry is required", fs, <<>>)
        ELSE IF ~id.ok THEN FileFail(id.err, fs, <<>>)
        ELSE IF ~r.ok THEN r
        ELSE IF FindDan(dans, id.v) # 0 THEN FileFail("danId already exists", fs, <<>>)
        ELSE writeDanData(SortDans(Append(dans, EntryCopy(entry, id.v))), fs, io)

updateDan(danID, entry, fs, io) ==
    LET r == readDanData(fs, io)
        dans == r.list
        idx == FindDan(dans, danID)
    IN  IF Cardinality(DOMAIN entry) = 0 THEN FileFail("entry is required", fs, <<>>)
        ELSE IF ~r.ok THEN r
        ELSE IF idx = 0 THEN FileFail("danId not found", fs, <<>>)
        ELSE writeDanData(SortDans([dans EXCEPT ![idx] = EntryCopy(entry, danID)]), fs, io)

removeDan(danID, fs, io) ==
    LET r == readDanData(fs, io)
        dans == r.list
        idx == FindDan(dans, danID)
    IN  IF ~r.ok THEN r
        ELSE IF idx = 0 THEN FileFail("danId not found", fs, <<>>)
        ELSE writeDanData(RemoveAt(dans, idx), fs, io)

readAgentConfig(fs, io) ==
    IF io = "readErr" THEN FileFail("read agent-config.json failed", fs, <<>>)
    ELSE FileOK(fs.config, fs, <<>>)

writeAgentConfig(config, fs, io) ==
    IF io = "writeErr"
    THEN FileFail("write agent-config.json failed", fs, <<"writefail:agent-config.json">>)
    ELSE FileOK(config, [fs EXCEPT !.config = config], <<"write:agent-config.json">>)

\* action: "/s" (shutdown) or "/r" (restart)
triggerSystemAction(c, action, fs) ==
    IF c.GOOS # "windows" THEN FileFail("system action is only supported on windows", fs, <<>>)
    ELSE FileOK(<<>>, fs, <<"exec:shutdown " \o action \o " /t 0">>)

\* ------------------------------------------------------------------------
\* Message dispatcher: the switch of handleMessage, up to the point where it
\* either has the response or has issued the backend call of an engine
\* operation.  Returns the response built so far, the engine's plan, the
\* side files and the local side effects.
\* ------------------------------------------------------------------------
NoPlan == [kind |-> "none"]

Handled(resp, fs, eff) == [resp |-> resp, plan |-> NoPlan, files |-> fs, effects |-> eff]

Forbidden(resp, fs) ==
    Handled(WithError(resp, "forbidden", "write operations are disabled"), fs, <<>>)

BadParams(resp, fs) == Handled(WithError(resp, "bad_params", "json: cannot unmarshal params"), fs, <<>>)

\* a side-file handler's reply: the error branch breaks out of the switch
FileReply(resp, r, code, shape) ==
    Handled(IF r.ok THEN WithResult(resp, shape) ELSE WithError(resp, code, r.msg),
            r.files, r.effects)

\* an engine operation: a rejection becomes db_error at once, a call is pending
EngineReply(resp, plan, fs) ==
    [resp |-> IF plan.kind = "reject" THEN WithError(resp, "db_error", plan.msg) ELSE resp,
     plan |-> plan, files |-> fs, effects |-> <<>>]

\* faulty variant: a default branch that answers as if the method were ping
UnknownMethodPong(resp, fs) == Handled(WithResult(resp, "pong+version"), fs, <<>>)

\* default: of the switch
UnknownMethod(resp, fs) ==
    Handled(WithError(resp, "unknown_method", "unsupported method"), fs, <<>>)

Dispatch(c, env, fs, io) ==
    LET resp == NewResponse(env)
        p == env.params
        m == env.method
    IN  CASE m = "ping" -> Handled(WithResult(resp, "pong+version"), fs, <<>>)
          [] m = "version.get" -> Handled(WithResult(resp, "version"), fs, <<>>)
          [] m = "agent.version" -> Handled(WithResult(resp, "versionString"), fs, <<>>)
          [] m = "movie.list" ->
                FileReply(resp, readMovieData(fs, io), "movie_data_error", "movies+count")
          [] m = "movie.add" ->
                IF ~c.AllowWrite THEN Forbidden(resp, fs)
                ELSE IF ~p.ok THEN BadParams(resp, fs)
                ELSE FileReply(resp, addMovie(p.MovieID, p.EnableDays, fs, io),
                               "movie_data_error", "ok+movies+count")
          [] m = "movie.update" ->
                IF ~c.AllowWrite THEN Forbidden(resp, fs)
                ELSE IF ~p.ok THEN BadParams(resp, fs)
                ELSE FileReply(resp, updateMovie(p.MovieID, p.EnableDays, fs, io),
                               "movie_data_error", "ok+movies+count")
          [] m = "movie.remove" ->
                IF ~c.AllowWrite THEN Forbidden(resp, fs)
                ELSE IF ~p.ok THEN BadParams(resp, fs)
                ELSE FileReply(resp, removeMovie(p.MovieID, fs, io),
                               "movie_data_error", "ok+movies+count")
          [] m = "dan.list" ->
                FileReply(resp, readDanData(fs, io), "dan_data_error", "dans+count")
          [] m = "dan.add" ->
                IF ~c.AllowWrite THEN Forbidden(resp, fs)
                ELSE IF ~p.ok THEN BadParams(resp, fs)
                ELSE FileReply(resp, addDan(p.Entry, fs, io), "dan_data_error", "ok+dans+count")
          [] m = "dan.update" ->
                IF ~c.AllowWrite THEN Forbidden(resp, fs)
                ELSE IF ~p.ok THEN BadParams(resp, fs)
                ELSE FileReply(resp, updateDan(p.DanID, p.Entry, fs, io),
                               "dan_data_error", "ok+dans+count")
          [] m = "dan.remove" ->
                IF ~c.AllowWrite THEN Forbidden(resp, fs)
                ELSE IF ~p.ok THEN BadParams(resp, fs)
                ELSE FileReply(resp, removeDan(p.DanID, fs, io), "dan_data_error", "ok+dans+count")
          [] m = "system.shutdown" ->
                IF ~c.AllowWrite THEN Forbidden(resp, fs)
                ELSE FileReply(resp, triggerSystemAction(c, "/s", fs), "system_error", "ok")
          [] m = "system.restart" ->
                IF ~c.AllowWrite THEN Forbidden(resp, fs)
                ELSE FileReply(resp, triggerSystemAction(c, "/r", fs), "system_error", "ok")
          [] m = "config.get" ->
                FileReply(resp, readAgentConfig(fs, io), "config_error", "config")
          [] m = "config.set" ->
                IF ~c.AllowWrite THEN Forbidden(resp, fs)
                ELSE IF ~p.ok THEN BadParams(resp, fs)
                ELSE IF Cardinality(DOMAIN p.Config) = 0
                THEN Handled(WithError(resp, "bad_params", "config is required"), fs, <<>>)
                ELSE FileReply(resp, writeAgentConfig(p.Config, fs, io),
                               "config_error", "ok+restartRequired")
          [] m = "query" ->
                IF ~p.ok THEN BadParams(resp, fs)
                ELSE EngineReply(resp, queryNamed(c, p.name, p.args), fs)
          [] m = "table.select" ->
                IF ~p.ok THEN BadParams(resp, fs)
                ELSE EngineReply(resp, tableSelect(c, p), fs)
          [] m = "table.insert" ->
                IF ~p.ok THEN BadParams(resp, fs)
                ELSE EngineReply(resp, tableInsert(c, p), fs)
          [] m = "table.update" ->
                IF ~p.ok THEN BadParams(resp, fs)
                ELSE EngineReply(resp, tableUpdate(c, p), fs)
          [] m = "table.delete" ->
                IF ~p.ok THEN BadParams(resp, fs)
                ELSE EngineReply(resp, tableDelete(c, p), fs)
          [] OTHER -> UnknownMethod(resp, fs)

\* faulty variant: a failed backend call that still fills in a result
BackendReplyBoth(resp, plan, ok) ==
    IF ok THEN WithResult(resp, plan.fin)
    ELSE WithError(WithResult(resp, plan.fin), "db_error", "backend error")

\* the backend call returned: rows / counts on success, db_error otherwise
BackendReply(resp, plan, ok) ==
    IF ok THEN WithResult(resp, plan.fin)
    ELSE WithError(resp, "db_error", "backend error")

\* ------------------------------------------------------------------------
\* Inbound frames the controller may send
\* ------------------------------------------------------------------------
Ids == {"r1", "r2"}

ValPool == {Nil, Num(17), Str(<<" ">>), Str(<<"a">>)}

Tables == {"Card", "UserData", "Tokens", "Nope"}

OrderItems ==
    {[Column |-> "Baid", Desc |-> FALSE], [Column |-> "Baid", Desc |-> TRUE],
     [Column |-> "Bogus", Desc |-> FALSE]}

IntOpts == {NoInt, SomeInt(1)}

SeqsOfLen(S, n) == [1..n -> S]

\* maps with exactly n keys
MapsOfSize(n) ==
    UNION {[K -> ValPool] : K \in {T \in SUBSET ColNames : Cardinality(T) = n}}

MapsUpTo(n) == UNION {MapsOfSize(k) : k \in 0..n}

\* table requests that name at most MaxIdents identifiers
SelectParams ==
    UNION {{TableParams(t, c, f, o, l, off, EmptyMap) :
                t \in Tables, c \in SeqsOfLen(ColNames, k[1]), f \in MapsOfSize(k[2]),
                o \in SeqsOfLen(OrderItems, k[3]), l \in IntOpts, off \in IntOpts} :
           k \in {x \in (0..MaxIdents) \X (0..MaxIdents) \X (0..MaxIdents) :
                    x[1] + x[2] + x[3] <= MaxIdents}}

InsertParams ==
    {TableParams(t, <<>>, EmptyMap, <<>>, NoInt, NoInt, v) : t \in Tables, v \in MapsUpTo(MaxIdents)}

UpdateParams ==
    UNION {{TableParams(t, <<>>, f, <<>>, NoInt, NoInt, v) :
                t \in Tables, v \in MapsOfSize(k[1]), f \in MapsOfSize(k[2])} :
           k \in {x \in (0..MaxIdents) \X (0..MaxIdents) : x[1] + x[2] <= MaxIdents}}

DeleteParams ==
    {TableParams(t, <<>>, f, <<>>, NoInt, NoInt, EmptyMap) : t \in Tables, f \in MapsUpTo(MaxIdents)}

QueryNames ==
    {"get_user_by_baid", "list_cards", "list_song_best_by_baid", "update_user_name", "drop_all"}

ArgPool == {Num(17), Str(<<"a">>)}

AllQueryParams ==
    {QueryParams(n, a) : n \in QueryNames, a \in UNION {SeqsOfLen(ArgPool, k) : k \in 0..MaxArgs}}

\* requests to the query engine, generated
EngineFrames ==
    {Frame("r1", "table.select", p) : p \in SelectParams}
        \cup {Frame("r1", "table.insert", p) : p \in InsertParams}
        \cup {Frame("r1", "table.update", p) : p \in UpdateParams}
        \cup {Frame("r1", "table.delete", p) : p \in DeleteParams}
        \cup {Frame("r1", "query", p) : p \in AllQueryParams}

CardRow == [AccessCode |-> Str(<<"a">>), Baid |-> Num(17)]

\* a few representative table requests for the full agent
SomeTableFrames(id) ==
    {Frame(id, "table.select", NoParams),
     Frame(id, "table.select", TableParams("Card", <<>>, EmptyMap, <<>>, NoInt, NoInt, EmptyMap)),
     Frame(id, "table.select",
           TableParams("UserData", <<"Baid">>, [Baid |-> Num(17)], <<>>, SomeInt(1), NoInt, EmptyMap)),
     Frame(id, "table.select", TableParams("Nope", <<>>, EmptyMap, <<>>, NoInt, NoInt, EmptyMap)),
     Frame(id, "table.select",
           TableParams("UserData", <<>>, [AccessCode |-> Str(<<"a">>), Bogus |-> Num(17)], <<>>,
                       NoInt, NoInt, EmptyMap)),
     Frame(id, "table.insert", NoParams),
     Frame(id, "table.insert", TableParams("Card", <<>>, EmptyMap, <<>>, NoInt, NoInt, CardRow)),
     Frame(id, "table.insert", TableParams("Card", <<>>, EmptyMap, <<>>, NoInt, NoInt, EmptyMap)),
     Frame(id, "table.update", NoParams),
     Frame(id, "table.update",
           TableParams("Card", <<>>, [AccessCode |-> Str(<<"a">>)], <<>>, NoInt, NoInt,
                       [Baid |-> Num(17)])),
     Frame(id, "table.update",
           TableParams("Card", <<>>, EmptyMap, <<>>, NoInt, NoInt, [Baid |-> Num(17)])),
     Frame(id, "table.delete", NoParams),
     Frame(id, "table.delete",
           TableParams("Card", <<>>, [AccessCode |-> Str(<<"a">>)], <<>>, NoInt, NoInt, EmptyMap)),
     Frame(id, "table.delete", TableParams("Card", <<>>, EmptyMap, <<>>, NoInt, NoInt, EmptyMap))}

SomeQueryFrames(id) ==
    {Frame(id, "query", NoParams)}
        \cup {Frame(id, "query", QueryParams(n, <<Num(17)>>)) : n \in QueryNames}

FileIds == 1..MaxFileId

DanEntries ==
    {EmptyMap, [title |-> Str(<<"a">>)], [danId |-> Str(<<"1">>)]}
        \cup {[danId |-> Num(i)] : i \in FileIds}

ConfigMaps == {EmptyMap, [token |-> Str(<<"a">>)]}

SideFileFrames(id) ==
    {Frame(id, m, NoParams) :
        m \in {"movie.list", "movie.add", "movie.update", "movie.remove", "dan.list", "dan.add",
               "dan.update", "dan.remove", "config.get", "config.set", "system.shutdown",
               "system.restart"}}
        \cup {Frame(id, m, MovieParams(i, 1)) :
                m \in {"movie.add", "movie.update", "movie.remove"}, i \in FileIds}
        \cup {Frame(id, "dan.add", DanParams(0, e)) : e \in DanEntries}
        \cup {Frame(id, "dan.update", DanParams(i, e)) :
                i \in FileIds, e \in {EmptyMap, [title |-> Str(<<"a">>)]}}
        \cup {Frame(id, "dan.remove", DanParams(i, EmptyMap)) : i \in FileIds}
        \cup {Frame(id, "config.set", ConfigSetParams(cm)) : cm \in ConfigMaps}

PlainFrames(id) ==
    {Frame(id, m, NoParams) : m \in {"", "ping", "version.get", "agent.version", "table.drop"}}

\* frames the full agent receives
AgentFrames ==
    {Garbage} \cup UNION {PlainFrames(id) \cup SideFileFrames(id) \cup SomeQueryFrames(id)
                            \cup SomeTableFrames(id) : id \in Ids}

\* frames for the agent's life cycle: undecodable bytes, a notification, a
\* request answered locally and one that goes to the backend
RunFrames ==
    {Garbage, Frame("r1", "", NoParams), Frame("r1", "ping", NoParams),
     Frame("r2", "query", QueryParams("list_cards", <<>>))}

\* ------------------------------------------------------------------------
\* State
\* ------------------------------------------------------------------------
VARIABLES
    cfg,        \* the agent's configuration
    files,      \* content of the JSON side files
    pc,         \* where Run / connectOnce / handleMessage stands
    connNo,     \* number of the connection of the current attempt (0: none yet)
    aconn,      \* a.conn, the shared handle (0: nil)
    sock,       \* "none" | "open" | "closed": the current connection's socket
    registered, \* the register envelope was written on the current connection
    rd,         \* readLoop of the current connection: "off" | "run" | "read" | "send" | "exit"
    readCh,     \* the capacity-1 channel from readLoop to the control loop
    shutdown,   \* a.shutdown
    ctxDone,    \* the cancellation signal of Run's context has fired
    inflight,   \* a.inflight
    cur,        \* the frame being handled
    msgCtx,     \* context handed to handleMessage: "ctx" | "background"
    resp,       \* the response envelope under construction
    plan,       \* the engine's plan for the request being handled
    calls,      \* backend calls issued for the request being handled
    effects,    \* local side effects (file writes, spawned commands) of this request
    out,        \* envelopes handleMessage tried to write for this request
    ret,        \* what handleMessage returned: "-" | "nil" | "decodeErr" | "writeErr"
    ping,       \* the last heartbeat ping on the current connection: "-" | "ok" | "fail"
    wfi,        \* the call of WaitForInflight made by the shutdown handler
    fatal,      \* the messages main has logged with Logger.Fatalf
    sel,        \* the rows of one APIClient.TableSelect on their way through its three passes
    held,       \* what readLoop got from ReadMessage and is sending on its channel
    tick,       \* the tick waiting in pingTicker.C: "-", or where the control loop stood when it fired
    hist        \* the order of events on the connection under observation

vars ==
    <<cfg, files, pc, connNo, aconn, sock, registered, rd, readCh, shutdown, ctxDone, inflight,
      cur, msgCtx, resp, plan, calls, effects, out, ret, ping, wfi, fatal, sel, held, tick, hist>>

otherVars == <<fatal, sel, held, tick>>

lifeVars == <<ping, wfi, otherVars, hist>>

connVars == <<connNo, aconn, sock, registered, rd, readCh>>

reqVars == <<cur, msgCtx, resp, plan, calls, effects, out, ret>>

\* WaitForInflight has not been called.  st: "idle" | "waiting" | "returned";
\* waiter: the goroutine around inflight.Wait(), "-" | "spawned" | "blocked" |
\* "released" | "closed" (done is closed); timer: time.After(timeout) has
\* fired; first: which of "the count is zero" and "the timeout elapsed" came
\* first since the call; result: the value returned
NoWait == [st |-> "idle", waiter |-> "-", timer |-> FALSE, first |-> "-", result |-> "-"]

NoFiles == [movies |-> <<>>, dans |-> <<>>, config |-> EmptyMap]

IdleRequest ==
    /\ cur = NoFrame
    /\ msgCtx = "-"
    /\ resp = NoEnvelope
    /\ plan = NoPlan
    /\ calls = <<>>
    /\ effects = <<>>
    /\ out = <<>>
    /\ ret = "-"

\* no row pipeline is under way
NoSelect ==
    [step |-> "-", prev |-> <<>>, rows |-> <<>>, filters |-> EmptyMap, columns |-> <<>>,
     offset |-> NoInt, limit |-> NoInt]

\* readLoop holds nothing
NoRead == [err |-> FALSE, data |-> NoFrame]

\* nothing is recorded.  on: events are recorded; recv: the frames in the
\* order ReadMessage returned them; disp: the frames in the order the control
\* loop took them for handleMessage; wrote: the ids of the envelopes in the
\* order WriteJSON was called with them, and whether the write succeeded
NoHist == [on |-> FALSE, recv |-> <<>>, disp |-> <<>>, wrote |-> <<>>]

\* the control loop takes a frame for handleMessage
Handed(h, frame) == IF h.on THEN [h EXCEPT !.disp = Append(@, frame)] ELSE h

\* handleMessage calls WriteJSON with an envelope
Wrote(h, id, ok) == IF h.on THEN [h EXCEPT !.wrote = Append(@, [id |-> id, ok |-> ok])] ELSE h

\* the agent as agent.New returns it, before Run is called
Constructed ==
    /\ files = NoFiles
    /\ connNo = 0
    /\ aconn = 0
    /\ sock = "none"
    /\ registered = FALSE
    /\ rd = "off"
    /\ readCh = <<>>
    /\ shutdown = FALSE
    /\ ctxDone = FALSE
    /\ inflight = 0
    /\ IdleRequest
    /\ ping = "-"
    /\ wfi = NoWait
    /\ held = NoRead
    /\ tick = "-"
    /\ hist = NoHist

Init ==
    /\ \E s \in Startups : ~s.exit /\ s.cfg \in Configs /\ cfg = s.cfg /\ fatal = s.fatal
    /\ pc = "start"
    /\ sel = NoSelect
    /\ Constructed

\* ------------------------------------------------------------------------
\* Run: the reconnect loop
\* ------------------------------------------------------------------------
\* faulty variant: a Run that enters its loop whatever the configuration holds
RunStartNoCheck ==
    /\ pc = "start"
    /\ pc' = "top"
    /\ UNCHANGED <<cfg, lifeVars, files, connVars, shutdown, ctxDone, inflight, reqVars>>

\* entry of Run: an error when the controller URL, the token or the agent id
\* is empty
RunStart ==
    /\ pc = "start"
    /\ pc' = IF cfg.ControllerURL = "" \/ cfg.Token = "" \/ cfg.AgentID = ""
             THEN "failed" ELSE "top"
    /\ UNCHANGED <<cfg, lifeVars, files, connVars, shutdown, ctxDone, inflight, reqVars>>

\* faulty variant: a loop that does not look at the context before connecting
RunTopNoCheck ==
    /\ pc = "top"
    /\ pc' = "dial"
    /\ UNCHANGED <<cfg, lifeVars, files, connVars, shutdown, ctxDone, inflight, reqVars>>

\* top of the loop: return when the context is done, else connectOnce
RunTop ==
    /\ pc = "top"
    /\ pc' = IF ctxDone THEN "returned" ELSE "dial"
    /\ UNCHANGED <<cfg, lifeVars, files, connVars, shutdown, ctxDone, inflight, reqVars>>

\* DialContext succeeds; setConn
DialOK ==
    /\ pc = "dial"
    /\ ~ctxDone
    /\ connNo < MaxConns
    /\ connNo' = connNo + 1
    /\ aconn' = connNo + 1
    /\ sock' = "open"
    /\ registered' = FALSE
    /\ rd' = "off"
    /\ readCh' = <<>>
    /\ pc' = "register"
    /\ ping' = "-"
    /\ UNCHANGED <<cfg, wfi, otherVars, hist, files, shutdown, ctxDone, inflight, reqVars>>

\* DialContext fails (or is aborted by the context)
DialFail ==
    /\ pc = "dial"
    /\ pc' = "after"
    /\ UNCHANGED <<cfg, lifeVars, files, connVars, shutdown, ctxDone, inflight, reqVars>>

\* faulty variant: a connectOnce that returns without its deferred calls
TeardownNothing == UNCHANGED <<connNo, aconn, sock, registered>>

\* the deferred calls of connectOnce: clearConn(conn), conn.Close()
Teardown ==
    /\ aconn' = IF aconn = connNo THEN 0 ELSE aconn
    /\ sock' = "closed"
    /\ UNCHANGED <<connNo, registered>>

\* the register envelope is written, the reader starts
RegisterOK ==
    /\ pc = "register"
    /\ sock = "open"
    /\ registered' = TRUE
    /\ rd' = "run"
    /\ pc' = "select"
    /\ UNCHANGED <<cfg, lifeVars, files, connNo, aconn, sock, readCh, shutdown, ctxDone, inflight, reqVars>>

\* writing the register envelope fails: connectOnce returns the error
RegisterFail ==
    /\ pc = "register"
    /\ Teardown
    /\ pc' = "after"
    /\ UNCHANGED <<cfg, lifeVars, files, rd, readCh, shutdown, ctxDone, inflight, reqVars>>

\* faulty variant: a loop that goes back to its top without the reconnect delay
AfterConnectNoDelay ==
    /\ pc = "after"
    /\ pc' = IF shutdown THEN "returned" ELSE "top"
    /\ UNCHANGED <<cfg, lifeVars, files, connVars, shutdown, ctxDone, inflight, reqVars>>

\* after connectOnce: return when shutting down, else wait the reconnect delay
AfterConnect ==
    /\ pc = "after"
    /\ pc' = IF shutdown THEN "returned" ELSE "delay"
    /\ UNCHANGED <<cfg, lifeVars, files, connVars, shutdown, ctxDone, inflight, reqVars>>

\* faulty variant: a loop that gives up after the reconnect delay
DelayTimerGiveUp ==
    /\ pc = "delay"
    /\ pc' = "returned"
    /\ UNCHANGED <<cfg, lifeVars, files, connVars, shutdown, ctxDone, inflight, reqVars>>

\* the reconnect timer fires
DelayTimer ==
    /\ pc = "delay"
    /\ pc' = "top"
    /\ UNCHANGED <<cfg, lifeVars, files, connVars, shutdown, ctxDone, inflight, reqVars>>

\* the context is done during the reconnect delay
DelayCancelled ==
    /\ pc = "delay"
    /\ ctxDone
    /\ pc' = "returned"
    /\ UNCHANGED <<cfg, lifeVars, files, connVars, shutdown, ctxDone, inflight, reqVars>>

\* ------------------------------------------------------------------------
\* readLoop.  The reader takes its next step when the control loop is back
\* in its select: its steps touch only rd and readCh, which handleMessage
\* never reads.
\* ------------------------------------------------------------------------
ReaderReadFrom(frames) ==
    /\ rd = "run"
    /\ sock = "open"
    /\ pc = "select"
    /\ readCh = <<>>
    /\ \E f \in frames : readCh' = <<[err |-> FALSE, data |-> f]>>
    /\ UNCHANGED <<cfg, lifeVars, files, pc, connNo, aconn, sock, registered, rd, shutdown, ctxDone,
                   inflight, reqVars>>

ReaderRead == ReaderReadFrom(AgentFrames)

\* ReadMessage fails (peer gone, deadline passed, socket closed)
ReaderError ==
    /\ rd = "run"
    /\ pc = "select"
    /\ readCh = <<>>
    /\ readCh' = <<[err |-> TRUE, data |-> NoFrame]>>
    /\ rd' = "exit"
    /\ UNCHANGED <<cfg, lifeVars, files, pc, connNo, aconn, sock, registered, shutdown, ctxDone, inflight,
                   reqVars>>

\* ------------------------------------------------------------------------
\* connectOnce: the select loop
\* ------------------------------------------------------------------------
\* case <-ctx.Done()
SelectCancelled ==
    /\ pc = "select"
    /\ ctxDone
    /\ Teardown
    /\ pc' = "after"
    /\ UNCHANGED <<cfg, lifeVars, files, rd, readCh, shutdown, ctxDone, inflight, reqVars>>

\* case msg := <-readCh with msg.err != nil
SelectReadError ==
    /\ pc = "select"
    /\ readCh # <<>>
    /\ readCh[1].err
    /\ readCh' = <<>>
    /\ Teardown
    /\ pc' = "after"
    /\ UNCHANGED <<cfg, lifeVars, files, rd, shutdown, ctxDone, inflight, reqVars>>

\* case msg := <-readCh while shutting down: the frame is dropped
SelectShutdown ==
    /\ pc = "select"
    /\ readCh # <<>>
    /\ ~readCh[1].err
    /\ shutdown
    /\ readCh' = <<>>
    /\ Teardown
    /\ pc' = "after"
    /\ UNCHANGED <<cfg, lifeVars, files, rd, shutdown, ctxDone, inflight, reqVars>>

\* faulty variant: a select that dispatches frames whatever the shutdown flag
SelectFrameAnyway ==
    /\ pc = "select"
    /\ readCh # <<>>
    /\ ~readCh[1].err
    /\ readCh' = <<>>
    /\ cur' = readCh[1].data
    /\ pc' = "gotmsg"
    /\ hist' = Handed(hist, readCh[1].data)
    /\ UNCHANGED <<cfg, ping, wfi, otherVars, files, connNo, aconn, sock, registered, rd, shutdown,
                   ctxDone, inflight, msgCtx, resp, plan, calls, effects, out, ret>>

\* case msg := <-readCh: a frame to dispatch
SelectFrame ==
    /\ pc = "select"
    /\ readCh # <<>>
    /\ ~readCh[1].err
    /\ ~shutdown
    /\ readCh' = <<>>
    /\ cur' = readCh[1].data
    /\ pc' = "gotmsg"
    /\ hist' = Handed(hist, readCh[1].data)
    /\ UNCHANGED <<cfg, ping, wfi, otherVars, files, connNo, aconn, sock, registered, rd, shutdown,
                   ctxDone, inflight, msgCtx, resp, plan, calls, effects, out, ret>>

\* faulty variant: a dispatch that does not count itself in flight
BeginDispatchNoAdd ==
    /\ pc = "gotmsg"
    /\ msgCtx' = IF shutdown THEN "background" ELSE "ctx"
    /\ pc' = "handle"
    /\ UNCHANGED <<cfg, lifeVars, files, connVars, shutdown, ctxDone, inflight, cur, resp, plan,
                   calls, effects, out, ret>>

\* inflight.Add(1); msgCtx
BeginDispatch ==
    /\ pc = "gotmsg"
    /\ inflight' = inflight + 1
    /\ msgCtx' = IF shutdown THEN "background" ELSE "ctx"
    /\ pc' = "handle"
    /\ UNCHANGED <<cfg, lifeVars, files, connVars, shutdown, ctxDone, cur, resp, plan, calls, effects,
                   out, ret>>

\* ------------------------------------------------------------------------
\* handleMessage
\* ------------------------------------------------------------------------
\* faulty variant: no frame is treated as a notification
IsNotificationNever(env) == FALSE

\* if env.Method == "" { return nil }
IsNotification(env) == env.method = ""

\* faulty variant: a handleMessage that answers undecodable bytes with an error
HandleMessageAnswerAll ==
    /\ pc = "handle"
    /\ \E io \in IOs :
        IF ~cur.dec
        THEN /\ resp' = WithError(NewResponse(cur), "bad_frame", "invalid json")
             /\ pc' = "write"
             /\ UNCHANGED <<files, plan, calls, effects, ret>>
        ELSE IF IsNotification(cur)
        THEN /\ ret' = "nil"
             /\ pc' = "done"
             /\ UNCHANGED <<files, resp, plan, calls, effects>>
        ELSE LET d == Dispatch(cfg, cur, files, io)
             IN  /\ resp' = d.resp
                 /\ plan' = d.plan
                 /\ files' = d.files
                 /\ effects' = d.effects
                 /\ calls' = IF d.plan.kind = "call" THEN <<d.plan.call>> ELSE <<>>
                 /\ pc' = IF d.plan.kind = "call" THEN "backend" ELSE "write"
                 /\ UNCHANGED ret
    /\ UNCHANGED <<cfg, lifeVars, connVars, shutdown, ctxDone, inflight, cur, msgCtx, out>>

\* decode, notification check, the switch up to the backend call
HandleMessage ==
    /\ pc = "handle"
    /\ \E io \in IOs :
        IF ~cur.dec
        THEN /\ ret' = "decodeErr"
             /\ pc' = "done"
             /\ UNCHANGED <<files, resp, plan, calls, effects>>
        ELSE IF IsNotification(cur)
        THEN /\ ret' = "nil"
             /\ pc' = "done"
             /\ UNCHANGED <<files, resp, plan, calls, effects>>
        ELSE LET d == Dispatch(cfg, cur, files, io)
             IN  /\ resp' = d.resp
                 /\ plan' = d.plan
                 /\ files' = d.files
                 /\ effects' = d.effects
                 /\ calls' = IF d.plan.kind = "call" THEN <<d.plan.call>> ELSE <<>>
                 /\ pc' = IF d.plan.kind = "call" THEN "backend" ELSE "write"
                 /\ UNCHANGED ret
    /\ UNCHANGED <<cfg, lifeVars, connVars, shutdown, ctxDone, inflight, cur, msgCtx, out>>

\* the next page of the upstream listing
NextPage(n) ==
    HTTPCall("GET", "/api/Users?page=" \o CharsToStr(Itoa(n)) \o "&limit=200", NoBody)

\* the context of the backend call, context.WithTimeout(msgCtx, RequestTimeout),
\* is done because its parent is: msgCtx is Run's context unless the
\* shutdown flag was set when the dispatch began
BackendCtxCancelled == msgCtx = "ctx" /\ ctxDone

\* faulty variant: a backend call that is issued a second time when it fails
BackendReturnRetry ==
    /\ pc = "backend"
    /\ \E o \in {"ok", "err"} :
        IF o = "err" /\ Len(calls) < 2
        THEN /\ calls' = Append(calls, calls[1])
             /\ UNCHANGED <<resp, pc>>
        ELSE /\ resp' = BackendReply(resp, plan, o = "ok")
             /\ pc' = "write"
             /\ UNCHANGED calls
    /\ UNCHANGED <<cfg, lifeVars, files, connVars, shutdown, ctxDone, inflight, cur, msgCtx, plan, effects,
                   out, ret>>

\* the backend call returns: success, failure (the request timeout
\* included), abort by its cancelled context, or, for the paginated listing,
\* a page that is not the last one
BackendReturn ==
    /\ pc = "backend"
    /\ \E o \in {"ok", "err", "more", "cancelled"} :
        /\ o = "more" => (plan.fin = "listCards" /\ Len(calls) < MaxPages)
        /\ o = "cancelled" => BackendCtxCancelled
        /\ IF o = "more"
           THEN /\ calls' = Append(calls, NextPage(Len(calls) + 1))
                /\ UNCHANGED <<resp, pc>>
           ELSE /\ resp' = IF o = "cancelled"
                            THEN WithError(resp, "db_error", "context canceled")
                            ELSE BackendReply(resp, plan, o = "ok")
                /\ pc' = "write"
                /\ UNCHANGED calls
    /\ UNCHANGED <<cfg, lifeVars, files, connVars, shutdown, ctxDone, inflight, cur, msgCtx, plan, effects,
                   out, ret>>

\* conn.WriteJSON(resp): it cannot succeed on a closed socket
WriteResponse ==
    /\ pc = "write"
    /\ \E ok \in BOOLEAN :
        /\ ok => sock = "open"
        /\ ret' = IF ok THEN "nil" ELSE "writeErr"
        /\ hist' = Wrote(hist, resp.ID, ok)
    /\ out' = Append(out, [conn |-> connNo, env |-> resp])
    /\ pc' = "done"
    /\ UNCHANGED <<cfg, ping, wfi, otherVars, files, connVars, shutdown, ctxDone, inflight, cur, msgCtx, resp, plan,
                   calls, effects>>

\* inflight.Done() bringing the counter to n: at zero the WaitGroup releases
\* a blocked waiter
InflightDone(w, n) ==
    [w EXCEPT !.waiter = IF w.waiter = "blocked" /\ n = 0 THEN "released" ELSE @,
              !.first = IF w.st = "waiting" /\ w.first = "-" /\ n = 0 THEN "zero" ELSE @]

\* handleMessage has returned: inflight.Done(), back to the select
DispatchDone ==
    /\ pc = "done"
    /\ inflight' = inflight - 1
    /\ pc' = "select"
    /\ cur' = NoFrame
    /\ msgCtx' = "-"
    /\ resp' = NoEnvelope
    /\ plan' = NoPlan
    /\ calls' = <<>>
    /\ effects' = <<>>
    /\ out' = <<>>
    /\ ret' = "-"
    /\ wfi' = InflightDone(wfi, inflight - 1)
    /\ UNCHANGED <<cfg, ping, otherVars, hist, files, connVars, shutdown, ctxDone>>

\* ------------------------------------------------------------------------
\* Shutdown and cancellation
\* ------------------------------------------------------------------------
\* faulty variant: a BeginShutdown that also cancels Run's context
BeginShutdownCancels ==
    /\ ~shutdown
    /\ pc \notin {"main", "returned", "failed", "exited"}
    /\ shutdown' = TRUE
    /\ ctxDone' = TRUE
    /\ sock' = IF aconn # 0 THEN "closed" ELSE sock
    /\ UNCHANGED <<cfg, lifeVars, files, pc, connNo, aconn, registered, rd, readCh, inflight,
                   reqVars>>

\* BeginShutdown: shutdown.Store(true); closeConn()
BeginShutdown ==
    /\ ~shutdown
    /\ pc \notin {"main", "returned", "failed", "exited"}
    /\ shutdown' = TRUE
    /\ sock' = IF aconn # 0 THEN "closed" ELSE sock
    /\ UNCHANGED <<cfg, lifeVars, files, pc, connNo, aconn, registered, rd, readCh, ctxDone, inflight,
                   reqVars>>

\* the context passed to Run is cancelled
Cancel ==
    /\ ~ctxDone
    /\ pc \notin {"main", "returned", "failed", "exited"}
    /\ ctxDone' = TRUE
    /\ UNCHANGED <<cfg, lifeVars, files, pc, connVars, shutdown, inflight, reqVars>>

Next ==
    \/ RunStart
    \/ RunTop
    \/ DialOK
    \/ DialFail
    \/ RegisterOK
    \/ RegisterFail
    \/ AfterConnect
    \/ DelayTimer
    \/ DelayCancelled
    \/ ReaderRead
    \/ ReaderError
    \/ SelectCancelled
    \/ SelectReadError
    \/ SelectShutdown
    \/ SelectFrame
    \/ BeginDispatch
    \/ HandleMessage
    \/ BackendReturn
    \/ WriteResponse
    \/ DispatchDone
    \/ BeginShutdown
    \/ Cancel

Spec == Init /\ [][Next]_vars

\* ------------------------------------------------------------------------
\* The query engine on its own: one generated request is being handled on
\* a registered connection
\* ------------------------------------------------------------------------
InitEngine ==
    /\ \E s \in Startups :
          ~s.exit /\ s.cfg \in Configs /\ s.cfg.GOOS = "windows" /\ cfg = s.cfg /\ fatal = s.fatal
    /\ sel = NoSelect
    /\ files = NoFiles
    /\ pc = "handle"
    /\ connNo = 1
    /\ aconn = 1
    /\ sock = "open"
    /\ registered = TRUE
    /\ rd = "run"
    /\ readCh = <<>>
    /\ shutdown = FALSE
    /\ ctxDone = FALSE
    /\ inflight = 1
    /\ cur \in EngineFrames
    /\ msgCtx = "ctx"
    /\ resp = NoEnvelope
    /\ plan = NoPlan
    /\ calls = <<>>
    /\ effects = <<>>
    /\ out = <<>>
    /\ ret = "-"
    /\ ping = "-"
    /\ wfi = NoWait
    /\ held = NoRead
    /\ tick = "-"
    /\ hist = NoHist

NextEngine ==
    \/ HandleMessage
    \/ BackendReturn
    \/ WriteResponse
    \/ DispatchDone

SpecEngine == InitEngine /\ [][NextEngine]_vars

\* ------------------------------------------------------------------------
\* The agent's life cycle: the reconnect loop with the heartbeat, and the
\* shutdown handler of main, which calls BeginShutdown and then
\* WaitForInflight
\* ------------------------------------------------------------------------
\* case <-pingTicker.C: the error of WriteControl is discarded
PingTick ==
    /\ pc = "select"
    /\ \E ok \in BOOLEAN :
        /\ ok => sock = "open"
        /\ ping' = IF ok THEN "ok" ELSE "fail"
    /\ UNCHANGED <<cfg, wfi, otherVars, hist, files, pc, connVars, shutdown, ctxDone, inflight, reqVars>>

\* WaitForInflight is called: done is made, the waiter goroutine is spawned
WaitStart ==
    /\ shutdown
    /\ wfi.st = "idle"
    /\ wfi' = [st |-> "waiting", waiter |-> "spawned", timer |-> FALSE,
               first |-> IF inflight = 0 THEN "zero" ELSE "-", result |-> "-"]
    /\ UNCHANGED <<cfg, ping, otherVars, hist, files, pc, connVars, shutdown, ctxDone, inflight, reqVars>>

\* the waiter goroutine calls inflight.Wait()
WaiterWait ==
    /\ wfi.waiter = "spawned"
    /\ wfi' = [wfi EXCEPT !.waiter = IF inflight = 0 THEN "released" ELSE "blocked"]
    /\ UNCHANGED <<cfg, ping, otherVars, hist, files, pc, connVars, shutdown, ctxDone, inflight, reqVars>>

\* the waiter goroutine, back from Wait, executes close(done)
WaiterClose ==
    /\ wfi.waiter = "released"
    /\ wfi' = [wfi EXCEPT !.waiter = "closed"]
    /\ UNCHANGED <<cfg, ping, otherVars, hist, files, pc, connVars, shutdown, ctxDone, inflight, reqVars>>

\* time.After(timeout) fires
WaitTimeout ==
    /\ wfi.st = "waiting"
    /\ ~wfi.timer
    /\ wfi' = [wfi EXCEPT !.timer = TRUE, !.first = IF @ = "-" THEN "timeout" ELSE @]
    /\ UNCHANGED <<cfg, ping, otherVars, hist, files, pc, connVars, shutdown, ctxDone, inflight, reqVars>>

\* faulty variant: a WaitForInflight that reports success without waiting
WaitReturnAtOnce ==
    /\ wfi.st = "waiting"
    /\ wfi' = [wfi EXCEPT !.st = "returned", !.result = "true"]
    /\ UNCHANGED <<cfg, ping, otherVars, hist, files, pc, connVars, shutdown, ctxDone, inflight, reqVars>>

\* the select of WaitForInflight takes a ready case (either one when both are)
WaitReturn ==
    /\ wfi.st = "waiting"
    /\ \E r \in {"true", "false"} :
        /\ r = "true" => wfi.waiter = "closed"
        /\ r = "false" => wfi.timer
        /\ wfi' = [wfi EXCEPT !.st = "returned", !.result = r]
    /\ UNCHANGED <<cfg, ping, otherVars, hist, files, pc, connVars, shutdown, ctxDone, inflight, reqVars>>

ReaderReadRun == ReaderReadFrom(RunFrames)

RunConfig ==
    [AllowWrite |-> TRUE, SourceMode |-> "direct", Handle |-> TRUE, GOOS |-> "linux",
     ControllerURL |-> "wss://controller", Token |-> "secret", AgentID |-> "agent-1"]

InitRun == Init /\ cfg = RunConfig

NextRun ==
    \/ RunStart
    \/ RunTop
    \/ DialOK
    \/ DialFail
    \/ RegisterOK
    \/ RegisterFail
    \/ AfterConnect
    \/ DelayTimer
    \/ DelayCancelled
    \/ ReaderReadRun
    \/ ReaderError
    \/ SelectCancelled
    \/ SelectReadError
    \/ SelectShutdown
    \/ SelectFrame
    \/ PingTick
    \/ BeginDispatch
    \/ HandleMessage
    \/ BackendReturn
    \/ WriteResponse
    \/ DispatchDone
    \/ BeginShutdown
    \/ Cancel
    \/ WaitStart
    \/ WaiterWait
    \/ WaiterClose
    \/ WaitTimeout
    \/ WaitReturn

\* steps of the control goroutine that need no input: every call it makes
\* returns (a dial ends, a backend call is bounded by the request timeout, a
\* timer fires)
ControlStep ==
    \/ RunStart
    \/ RunTop
    \/ DialOK
    \/ DialFail
    \/ RegisterOK
    \/ RegisterFail
    \/ AfterConnect
    \/ DelayTimer
    \/ BeginDispatch
    \/ HandleMessage
    \/ BackendReturn
    \/ WriteResponse
    \/ DispatchDone

\* the select takes what the reader has put on readCh
TakeRead == SelectReadError \/ SelectShutdown \/ SelectFrame

\* ReadMessage on a socket that was closed returns its error
ReaderClosed == ReaderError /\ sock = "closed"

\* Scheduling: goroutines that can run do run, timers fire, and a select
\* picks at random among its ready cases, so a case that is ready again and
\* again is taken.  Nothing is assumed of the controller: it need not send a
\* frame, and it may keep answering pings.
FairRun ==
    /\ WF_vars(ControlStep)
    /\ WF_vars(TakeRead)
    /\ SF_vars(SelectCancelled)
    /\ SF_vars(DelayCancelled)
    /\ WF_vars(ReaderClosed)
    /\ WF_vars(WaiterWait)
    /\ WF_vars(WaiterClose)
    /\ WF_vars(WaitTimeout)
    /\ WF_vars(WaitReturn)

SpecRun == InitRun /\ [][NextRun]_vars /\ FairRun

\* ------------------------------------------------------------------------
\* The process from main on: the command line is read, the backend is set
\* up, the agent is made and Run is called
\* ------------------------------------------------------------------------
MainFlags == {f \in Flags : f.AllowWrite /\ f.GOOS = "linux"}

InitMain ==
    /\ cfg = NoConfig
    /\ fatal = <<>>
    /\ pc = "main"
    /\ sel = NoSelect
    /\ Constructed

\* main up to agent.New
MainSetup ==
    /\ pc = "main"
    /\ \E f \in MainFlags, opened \in BOOLEAN :
        LET m == mainSetup(f, opened)
        IN  /\ cfg' = m.cfg
            /\ fatal' = m.fatal
            /\ pc' = IF m.exit THEN "exited" ELSE "start"
    /\ UNCHANGED <<ping, wfi, sel, held, tick, hist, files, connVars, shutdown, ctxDone, inflight, reqVars>>

\* Run returned an error: main logs it with Fatalf and returns
MainAfterRun ==
    /\ pc = "failed"
    /\ fatal' = Fatalf([log |-> fatal, exit |-> FALSE], "agent exited: error").log
    /\ pc' = "exited"
    /\ UNCHANGED <<cfg, ping, wfi, sel, held, tick, hist, files, connVars, shutdown, ctxDone, inflight, reqVars>>

NextMain ==
    \/ MainSetup
    \/ MainAfterRun
    \/ NextRun

SpecMain == InitMain /\ [][NextMain]_vars

\* ------------------------------------------------------------------------
\* The three passes of APIClient.TableSelect over the rows the upstream
\* returned: applyFilterRows, applyColumnProjection, applyOffsetLimit
\* ------------------------------------------------------------------------
RowPool ==
    {[AccessCode |-> Str(<<"a">>), Baid |-> Num(17)],
     [AccessCode |-> Str(<<"a">>), Baid |-> Str(<<"1", "7">>)],
     [Baid |-> Num(1)]}

RowLists == UNION {[1..n -> RowPool] : n \in 0..MaxRows}

FilterVals == {Num(17), Str(<<"1", "7">>), Str(<<"a">>), Nil}

FilterMaps == UNION {[K -> FilterVals] : K \in SUBSET {"AccessCode", "Baid"}}

ColumnLists == {<<>>, <<"Baid", "Bogus">>}

PageInts == {NoInt} \cup {SomeInt(i) : i \in (0 - 1)..(MaxRows + 1)}

\* the orders in which a range statement may yield the keys of a map
Orders(m) ==
    {q \in [1..Cardinality(DOMAIN m) -> DOMAIN m] :
        \A i, j \in 1..Cardinality(DOMAIN m) : i # j => q[i] # q[j]}

ApiConfig == [RunConfig EXCEPT !.SourceMode = "api"]

InitRows ==
    /\ cfg = ApiConfig
    /\ fatal = <<>>
    /\ pc = "start"
    /\ sel \in [step : {"fetched"}, prev : {<<>>}, rows : RowLists, filters : FilterMaps,
                 columns : ColumnLists, offset : {NoInt}, limit : {NoInt}]
    /\ Constructed

\* rows = applyFilterRows(rows, filters)
FilterRows ==
    /\ sel.step = "fetched"
    /\ \E order \in Orders(sel.filters) :
        sel' = [sel EXCEPT !.step = "filtered", !.prev = sel.rows,
                           !.rows = applyFilterRows(sel.rows, sel.filters, order)]
    /\ UNCHANGED <<cfg, ping, wfi, fatal, held, tick, hist, files, pc, connVars, shutdown,
                   ctxDone, inflight,
                   reqVars>>

\* rows = applyColumnProjection(rows, columns)
ProjectRows ==
    /\ sel.step = "filtered"
    /\ sel' = [sel EXCEPT !.step = "projected", !.prev = sel.rows,
                          !.rows = applyColumnProjection(sel.rows, sel.columns)]
    /\ UNCHANGED <<cfg, ping, wfi, fatal, held, tick, hist, files, pc, connVars, shutdown,
                   ctxDone, inflight,
                   reqVars>>

\* rows = applyOffsetLimit(rows, offset, limit)
OffsetLimitRows ==
    /\ sel.step = "projected"
    /\ \E offset \in PageInts, limit \in PageInts :
        sel' = [sel EXCEPT !.step = "done", !.prev = sel.rows, !.offset = offset,
                           !.limit = limit,
                           !.rows = applyOffsetLimit(sel.rows, offset, limit)]
    /\ UNCHANGED <<cfg, ping, wfi, fatal, held, tick, hist, files, pc, connVars, shutdown,
                   ctxDone, inflight,
                   reqVars>>

NextRows ==
    \/ FilterRows
    \/ ProjectRows
    \/ OffsetLimitRows

SpecRows == InitRows /\ [][NextRows]_vars

\* ------------------------------------------------------------------------
\* One connection with its three tasks side by side: the control loop of
\* connectOnce, readLoop as a goroutine of its own, and the ping ticker.
\* Run is followed from the loop of connectOnce to its return or to the
\* point of its next dial.
\* The reader stands at the top of its loop ("run"), in ReadMessage ("read"),
\* at the send on its channel ("send"), or has returned ("exit").
\* ------------------------------------------------------------------------
\* connectOnce has returned: its deferred calls, cancelRead among them, ran
AttemptOver == pc \in {"after", "delay", "top", "dial", "returned"}

\* readCtx, a child of Run's context, is done
ReadCtxDone == ctxDone \/ AttemptOver

\* faulty variant: a reader that never looks at its context
ReadLoopCheckNever ==
    /\ rd = "run"
    /\ rd' = "read"
    /\ UNCHANGED <<cfg, lifeVars, files, pc, connNo, aconn, sock, registered, readCh, shutdown,
                   ctxDone, inflight, reqVars>>

\* top of readLoop: return when readCtx is done, else ReadMessage
ReadLoopCheck ==
    /\ rd = "run"
    /\ rd' = IF ReadCtxDone THEN "exit" ELSE "read"
    /\ UNCHANGED <<cfg, lifeVars, files, pc, connNo, aconn, sock, registered, readCh, shutdown,
                   ctxDone, inflight, reqVars>>

\* ReadMessage returns a frame
ReadLoopRead ==
    /\ rd = "read"
    /\ sock = "open"
    /\ Len(hist.recv) < MaxFrames
    /\ \E f \in RunFrames :
        /\ held' = [err |-> FALSE, data |-> f]
        /\ hist' = [hist EXCEPT !.recv = Append(@, f)]
    /\ rd' = "send"
    /\ UNCHANGED <<cfg, ping, wfi, fatal, sel, tick, files, pc, connNo, aconn, sock, registered,
                   readCh, shutdown, ctxDone, inflight, reqVars>>

\* ReadMessage returns an error (peer gone, deadline passed, socket closed)
ReadLoopFail ==
    /\ rd = "read"
    /\ held' = [err |-> TRUE, data |-> NoFrame]
    /\ rd' = "send"
    /\ UNCHANGED <<cfg, ping, wfi, fatal, sel, tick, hist, files, pc, connNo, aconn, sock,
                   registered, readCh, shutdown, ctxDone, inflight, reqVars>>

\* faulty variant: a send that replaces what the channel holds
ReadLoopSendOver ==
    /\ rd = "send"
    /\ readCh' = <<held>>
    /\ held' = NoRead
    /\ rd' = IF held.err THEN "exit" ELSE "run"
    /\ UNCHANGED <<cfg, ping, wfi, fatal, sel, tick, hist, files, pc, connNo, aconn, sock,
                   registered, shutdown, ctxDone, inflight, reqVars>>

\* out <- readResult{...}: the send blocks while the channel holds a result;
\* after an error the reader returns
ReadLoopSend ==
    /\ rd = "send"
    /\ readCh = <<>>
    /\ readCh' = <<held>>
    /\ held' = NoRead
    /\ rd' = IF held.err THEN "exit" ELSE "run"
    /\ UNCHANGED <<cfg, ping, wfi, fatal, sel, tick, hist, files, pc, connNo, aconn, sock,
                   registered, shutdown, ctxDone, inflight, reqVars>>

\* the ticker fires: its channel holds one tick, a further one is dropped
TickerFire ==
    /\ pc \in {"select", "gotmsg", "handle", "backend", "write", "done"}
    /\ tick = "-"
    /\ tick' = IF pc = "backend" THEN "inCall" ELSE "fired"
    /\ UNCHANGED <<cfg, ping, wfi, fatal, sel, held, hist, files, pc, connVars, shutdown,
                   ctxDone, inflight, reqVars>>

\* case <-pingTicker.C, for the tick the channel holds
SelectPing ==
    /\ pc = "select"
    /\ tick # "-"
    /\ tick' = "-"
    /\ \E ok \in BOOLEAN :
        /\ ok => sock = "open"
        /\ ping' = IF ok THEN "ok" ELSE "fail"
    /\ UNCHANGED <<cfg, wfi, fatal, sel, held, hist, files, pc, connVars, shutdown, ctxDone,
                   inflight, reqVars>>

\* connectOnce enters its loop: the connection is registered, the ticker and
\* the reader have been started
InitConn ==
    /\ cfg = RunConfig
    /\ fatal = <<>>
    /\ sel = NoSelect
    /\ files = NoFiles
    /\ pc = "select"
    /\ connNo = 1
    /\ aconn = 1
    /\ sock = "open"
    /\ registered = TRUE
    /\ rd = "run"
    /\ readCh = <<>>
    /\ shutdown = FALSE
    /\ ctxDone = FALSE
    /\ inflight = 0
    /\ IdleRequest
    /\ ping = "-"
    /\ wfi = NoWait
    /\ held = NoRead
    /\ tick = "-"
    /\ hist = [NoHist EXCEPT !.on = TRUE]

NextConn ==
    \/ ReadLoopCheck
    \/ ReadLoopRead
    \/ ReadLoopFail
    \/ ReadLoopSend
    \/ TickerFire
    \/ SelectPing
    \/ SelectCancelled
    \/ SelectReadError
    \/ SelectShutdown
    \/ SelectFrame
    \/ BeginDispatch
    \/ HandleMessage
    \/ BackendReturn
    \/ WriteResponse
    \/ DispatchDone
    \/ AfterConnect
    \/ DelayTimer
    \/ DelayCancelled
    \/ RunTop
    \/ BeginShutdown
    \/ Cancel

\* Run after connectOnce has returned, up to its next dial or its return
RunOn == AfterConnect \/ DelayTimer \/ RunTop

\* handleMessage runs to its end: every call it makes returns
HandleStep == BeginDispatch \/ HandleMessage \/ BackendReturn \/ WriteResponse \/ DispatchDone

\* ReadMessage on a closed socket returns its error
ReadLoopClosed == ReadLoopFail /\ sock = "closed"

\* Scheduling: a goroutine that can take a step takes it, and a select picks
\* at random among its ready cases.  Nothing is assumed of the controller.
FairConn ==
    /\ WF_vars(HandleStep)
    /\ WF_vars(TakeRead)
    /\ SF_vars(SelectCancelled)
    /\ WF_vars(RunOn)
    /\ SF_vars(DelayCancelled)
    /\ WF_vars(ReadLoopCheck)
    /\ WF_vars(ReadLoopClosed)
    /\ WF_vars(ReadLoopSend)

SpecConn == InitConn /\ [][NextConn]_vars /\ FairConn

\* ------------------------------------------------------------------------
\* Properties
\* ------------------------------------------------------------------------
Range(f) == {f[x] : x \in DOMAIN f}

TableMethods == {"table.select", "table.insert", "table.update", "table.delete"}

KnownMethods ==
    {"ping", "version.get", "agent.version", "movie.list", "movie.add", "movie.update",
     "movie.remove", "dan.list", "dan.add", "dan.update", "dan.remove", "system.shutdown",
     "system.restart", "config.get", "config.set", "query"} \cup TableMethods

\* the request being handled is one of the mutating methods: table.insert,
\* table.update, table.delete, or query naming a write-flagged statement
MutatingRequest ==
    /\ cur.dec
    /\ cur.params.ok
    /\ \/ cur.method \in {"table.insert", "table.update", "table.delete"}
       \/ /\ cur.method = "query"
          /\ cur.params.name \in DOMAIN Queries
          /\ ~Queries[cur.params.name].ReadOnly

\* the request being handled is a table request with decodable parameters
TableRequest == cur.dec /\ cur.method \in TableMethods /\ cur.params.ok

\* the column names the table request being handled refers to
ReferencedColumns ==
    LET p == cur.params
    IN  CASE cur.method = "table.select" ->
                Range(p.columns) \cup DOMAIN p.filters \cup {o.Column : o \in Range(p.orderBy)}
          [] cur.method = "table.insert" -> DOMAIN p.values
          [] cur.method = "table.update" -> DOMAIN p.values \cup DOMAIN p.filters
          [] OTHER -> DOMAIN p.filters

\* the table request names a table or a column that is not in the registry
UnknownIdentifier ==
    \/ ~TableKnown(cur.params.table)
    \/ \E col \in ReferencedColumns : col \notin TableSchemas[cur.params.table]

\* handleMessage has built the response of the request being handled
Answered == pc \in {"write", "done"} /\ resp.Type = "response"

\* C1: with allowWrite = false, no mutating request (table.insert,
\* table.update, table.delete, query update_user_name) ever issues a backend
\* call, whichever backend is selected.
C1_NoWriteWhenDisabled ==
    (~cfg.AllowWrite /\ MutatingRequest) => (calls = <<>> /\ pc # "backend")

C1_Witness ==
    /\ ~cfg.AllowWrite
    /\ cfg.Handle
    /\ pc = "done"
    /\ cur.method = "table.delete"
    /\ cur.params.table = "Card"
    /\ cur.params.filters = [AccessCode |-> Str(<<"a">>)]
    /\ resp.Error.set
    /\ resp.Error.Message = "write queries disabled"
    /\ calls = <<>>

\* C2: with allowWrite = false, the answer to every mutating method carries
\* error.code = "forbidden", and the dispatcher produces it without calling
\* into the query engine.
C2_ForbiddenFromDispatcher ==
    (~cfg.AllowWrite /\ MutatingRequest /\ Answered) =>
        (resp.Error.set /\ resp.Error.Code = "forbidden" /\ plan = NoPlan)

\* C3: on the direct-SQL backend a table request that names an unknown table
\* or any unknown column (projection, filter key, orderBy column, values key)
\* is answered with an error and issues no QueryContext / ExecContext; a
\* request issues at most one backend call.
C3_UnknownIdentifierRejected ==
    cfg.SourceMode = "direct" =>
        /\ Len(calls) <= 1
        /\ (TableRequest /\ UnknownIdentifier) =>
              /\ calls = <<>>
              /\ pc # "backend"
              /\ Answered => (resp.Error.set /\ ~resp.Result.set)

C3_Witness ==
    /\ cfg.SourceMode = "direct"
    /\ cfg.Handle
    /\ cfg.AllowWrite
    /\ pc = "done"
    /\ cur.method = "table.update"
    /\ cur.params.table = "Card"
    /\ DOMAIN cur.params.values = {"Baid"}
    /\ DOMAIN cur.params.filters = {"Bogus"}
    /\ resp.Error.set
    /\ resp.Error.Message = "unknown column: Bogus"
    /\ calls = <<>>

\* C4: on the REST backend a table.select on a supported table (UserData,
\* SongBestData, SongPlayData, Card) whose columns or filters name a column
\* that is not in the registry issues no upstream HTTP request.
C4_RestUnknownColumnRejected ==
    ( /\ cfg.SourceMode = "api"
      /\ TableRequest
      /\ cur.method = "table.select"
      /\ cur.params.table \in {"UserData", "SongBestData", "SongPlayData", "Card"}
      /\ \E col \in Range(cur.params.columns) \cup DOMAIN cur.params.filters :
            col \notin TableSchemas[cur.params.table] )
    => (calls = <<>> /\ pc # "backend")

\* C5: on the direct-SQL backend with allowWrite = true, table.update and
\* table.delete with empty filters are answered with an error and never call
\* ExecContext; no UPDATE or DELETE without a WHERE clause is ever executed.
C5_NoUnfilteredWrite ==
    cfg.SourceMode = "direct" =>
        /\ \A i \in 1..Len(calls) :
              calls[i].verb \in {"UPDATE", "DELETE"} => calls[i].whereSQL # ""
        /\ ( /\ cfg.AllowWrite
             /\ TableRequest
             /\ cur.method \in {"table.update", "table.delete"}
             /\ DOMAIN cur.params.filters = {} )
           => /\ calls = <<>>
              /\ pc # "backend"
              /\ Answered => (resp.Error.set /\ ~resp.Result.set)

C5_Witness ==
    /\ cfg.SourceMode = "direct"
    /\ cfg.Handle
    /\ cfg.AllowWrite
    /\ pc = "done"
    /\ cur.method = "table.update"
    /\ cur.params.table = "Card"
    /\ DOMAIN cur.params.values = {"Baid"}
    /\ DOMAIN cur.params.filters = {}
    /\ resp.Error.set
    /\ resp.Error.Message = "update requires filters"
    /\ calls = <<>>

\* C6: on the REST backend with allowWrite = true, a table.delete whose
\* filters are empty or lack the AccessCode key sends no HTTP request, for
\* every table, Card included.
C6_RestDeleteNeedsAccessCode ==
    ( /\ cfg.SourceMode = "api"
      /\ cfg.AllowWrite
      /\ TableRequest
      /\ cur.method = "table.delete"
      /\ "AccessCode" \notin DOMAIN cur.params.filters )
    => (calls = <<>> /\ pc # "backend")

\* C7: for a frame that decodes to an envelope with a non-empty method,
\* handleMessage attempts exactly one write, of an envelope of type
\* "response" whose id is the request's id, on the connection the request
\* came from; no envelope with a different id is ever written.
C7_OneResponsePerRequest ==
    /\ Len(out) <= 1
    /\ \A i \in 1..Len(out) :
          /\ out[i].env.Type = "response"
          /\ out[i].env.ID = cur.id
          /\ out[i].conn = connNo
    /\ (pc = "done" /\ cur.dec /\ cur.method # "") => Len(out) = 1

C7_Witness ==
    /\ pc = "done"
    /\ connNo = 2
    /\ cur.dec
    /\ cur.id = "r2"
    /\ cur.method = "table.select"
    /\ Len(out) = 1
    /\ out[1].env.ID = "r2"
    /\ out[1].env.Result.set

\* C8: a frame whose method is absent is a notification: the step of
\* handleMessage that handles it writes nothing, issues no backend call,
\* touches no file, returns nil, and leaves the session state (connection,
\* shutdown flag, in-flight count) as it was.
C8_NotificationIsSilent ==
    [][(pc = "handle" /\ pc' # "handle" /\ cur.dec /\ cur.method = "") =>
          /\ pc' = "done"
          /\ ret' = "nil"
          /\ out' = <<>>
          /\ calls' = <<>>
          /\ effects' = <<>>
          /\ resp' = NoEnvelope
          /\ UNCHANGED <<cfg, files, connVars, shutdown, ctxDone, inflight>>]_vars

C8_Witness ==
    /\ pc = "done"
    /\ cur.dec
    /\ cur.method = ""
    /\ cur.id = "r1"
    /\ ret = "nil"
    /\ out = <<>>
    /\ calls = <<>>

\* C9: every response envelope has exactly one of result and error set.
C9_ResultXorError ==
    /\ Answered => (resp.Result.set # resp.Error.set)
    /\ \A i \in 1..Len(out) : out[i].env.Result.set # out[i].env.Error.set

C9_Witness ==
    /\ pc = "done"
    /\ Len(out) = 1
    /\ Len(calls) = 1
    /\ out[1].env.Error.set
    /\ out[1].env.Error.Code = "db_error"
    /\ out[1].env.Error.Message = "backend error"
    /\ ~out[1].env.Result.set

\* C10: a request whose method is none of the dispatcher's cases is answered
\* with error.code = "unknown_method"; it issues no backend call and writes
\* no file.
C10_UnknownMethod ==
    (cur.dec /\ cur.method \notin KnownMethods \cup {"", "-"} /\ Answered) =>
        /\ resp.Error.set
        /\ resp.Error.Code = "unknown_method"
        /\ ~resp.Result.set
        /\ plan = NoPlan
        /\ calls = <<>>
        /\ effects = <<>>
        /\ pc = "done" => (Len(out) = 1 /\ out[1].env = resp)

C10_Witness ==
    /\ pc = "done"
    /\ cur.dec
    /\ cur.method = "table.drop"
    /\ Len(out) = 1
    /\ out[1].env.Error.Code = "unknown_method"
    /\ calls = <<>>
    /\ effects = <<>>

\* handleMessage is running, or is about to run, for a frame of the current
\* connection
Dispatching == pc \in {"gotmsg", "handle", "backend", "write", "done"}

\* C11: after a connection attempt has ended, the next dial comes only after
\* the reconnect timer has fired (the loop leaves the end of an attempt only
\* into the delay, or returns when shutting down; once entered, it comes back
\* to its top only by the timer; it dials only from its top), and on every
\* connection the register envelope is written before the reader starts,
\* before a frame is dispatched and before a response is written.
C11_DelayThenRegister ==
    /\ []((Dispatching \/ out # <<>> \/ readCh # <<>> \/ rd = "run") => registered)
    /\ [][/\ (pc = "after" /\ pc' # "after") =>
                (pc' \in {"delay", "returned"} /\ (pc' = "returned" => shutdown))
          /\ (pc' = "top" /\ pc # "top") => pc \in {"delay", "start"}
          /\ (pc' = "dial" /\ pc # "dial") => pc = "top"]_vars

C11_Witness ==
    /\ connNo = 2
    /\ registered
    /\ pc = "handle"
    /\ cur.method = "ping"
    /\ rd = "run"
    /\ ~shutdown
    /\ ~ctxDone

\* C12: as long as neither the cancellation signal fires nor BeginShutdown is
\* called, every end of a connection attempt is eventually followed by
\* another dial, however many attempts have failed before.
C12_RetryForever == (pc = "after") ~> (pc = "dial" \/ shutdown \/ ctxDone)

C12_Witness ==
    /\ pc = "dial"
    /\ connNo = 2
    /\ rd = "exit"
    /\ sock = "closed"
    /\ ~shutdown
    /\ ~ctxDone

\* C13: once the shutdown flag is set, Run starts no further dial.
C13_NoDialAfterShutdown == [][(pc' = "dial" /\ pc # "dial") => ~shutdown]_vars

\* C14: after BeginShutdown is called, Run eventually returns.
C14_ShutdownReturns == shutdown ~> (pc = "returned")

\* a step of WaitForInflight or of its waiter goroutine
WaitStep == WaitStart \/ WaiterWait \/ WaiterClose \/ WaitTimeout \/ WaitReturn

\* C15 as stated: WaitForInflight returns true if and only if the in-flight
\* count reached zero before the timeout elapsed.
C15_TrueIffZeroFirst ==
    wfi.st = "returned" => (wfi.result = "true" <=> wfi.first = "zero")

\* C15 as the code has it: WaitForInflight always returns; it returns true
\* only after the waiter goroutine saw the count at zero and closed done, and
\* false only after the timeout elapsed; a return before the timeout elapsed
\* is a return of true with the count at zero first; no step of it changes
\* the in-flight count or the shutdown flag.  (When the timer fires before
\* the waiter has closed done, or both are ready, either value may come.)
C15_WaitForInflight ==
    /\ [](wfi.st = "returned" =>
            /\ wfi.result \in {"true", "false"}
            /\ wfi.result = "true" => wfi.waiter = "closed"
            /\ wfi.result = "false" => wfi.timer
            /\ ~wfi.timer => (wfi.result = "true" /\ wfi.first = "zero"))
    /\ (wfi.st = "waiting") ~> (wfi.st = "returned")
    /\ [][WaitStep => UNCHANGED <<inflight, shutdown>>]_vars

C15_Witness ==
    /\ wfi.st = "returned"
    /\ wfi.result = "false"
    /\ wfi.first = "zero"
    /\ wfi.timer
    /\ wfi.waiter = "released"
    /\ inflight = 0

\* C16: the in-flight count is one from the moment the control loop begins
\* the dispatch of a frame until handleMessage has returned, whatever it
\* returned, and zero otherwise; it is zero whenever the control loop waits
\* in its select and never negative.
C16_InflightCount ==
    inflight = IF pc \in {"handle", "backend", "write", "done"} THEN 1 ELSE 0

C16_Witness ==
    /\ pc = "done"
    /\ ret = "writeErr"
    /\ Len(out) = 1
    /\ Len(calls) = 1
    /\ inflight = 1

\* C17: a frame the control loop takes from the reader while the shutdown
\* flag is set is not dispatched: the step issues no backend call, writes no
\* response, leaves the in-flight count alone and ends the connection attempt.
C17_ShutdownStopsIntake ==
    [][(pc = "select" /\ shutdown /\ readCh # <<>> /\ ~readCh[1].err /\ readCh' = <<>>) =>
          /\ pc' = "after"
          /\ sock' = "closed"
          /\ aconn' # connNo
          /\ UNCHANGED <<inflight, files, reqVars>>]_vars

C17_Witness ==
    /\ pc = "after"
    /\ shutdown
    /\ ~ctxDone
    /\ registered
    /\ rd = "run"
    /\ readCh = <<>>
    /\ sock = "closed"
    /\ inflight = 0
    /\ cur = NoFrame

\* C18: once the cancellation signal has fired, Run eventually returns, from
\* wherever it stands; no dial is started after the signal and a dial in
\* progress does not produce a connection.
C18_CancelReturns ==
    /\ ctxDone ~> (pc = "returned")
    /\ [][/\ (pc' = "dial" /\ pc # "dial") => ~ctxDone
          /\ (pc = "dial" /\ ctxDone) => pc' \in {"dial", "after"}]_vars

C18_Witness ==
    /\ pc = "returned"
    /\ ctxDone
    /\ ~shutdown
    /\ connNo = 1
    /\ registered
    /\ rd = "run"
    /\ sock = "closed"

\* C19: the cancellation signal does not abort an operation already
\* dispatched to the backend: while the shutdown flag is not set, the context
\* of a backend call in progress is not cancelled by the signal, and no
\* operation is answered with the error of a cancelled context.
C19_CancelSparesBackend ==
    /\ (pc = "backend" /\ ~shutdown /\ ctxDone) => ~BackendCtxCancelled
    /\ ~(Answered /\ msgCtx = "ctx" /\ resp.Error.Message = "context canceled")

\* C20: when the heartbeat ping fails, the connection attempt on which it
\* failed ends: the control loop is not in the select loop of that
\* connection, nor dispatching one of its frames, after the failure.
C20_PingFailureEndsAttempt ==
    ping = "fail" => pc \in {"after", "delay", "top", "dial", "returned"}

\* C21: when writing a response envelope fails, the connection attempt ends:
\* the control loop leaves the dispatch of that frame only into the end of
\* the attempt, so that no further frame of that connection is dispatched.
C21_WriteFailureEndsAttempt ==
    [][(pc = "done" /\ ret = "writeErr" /\ pc' # "done") => pc' = "after"]_vars

\* the configuration lacks the controller URL, the token or the agent id
Incomplete == cfg.ControllerURL = "" \/ cfg.Token = "" \/ cfg.AgentID = ""

\* C22: with an empty controller URL, token or agent id, the first step of
\* Run is to return an error: Run never enters the reconnect loop, no dial is
\* made and no connection exists.
C22_MissingConfigIsFatal ==
    /\ []((pc # "main" /\ Incomplete) =>
            /\ pc \in {"start", "failed", "exited"}
            /\ connNo = 0
            /\ aconn = 0
            /\ sock = "none"
            /\ IdleRequest)
    /\ [][(pc = "start" /\ Incomplete /\ pc' # "start") => pc' = "failed"]_vars

C22_Witness ==
    /\ pc = "failed"
    /\ cfg.ControllerURL # ""
    /\ cfg.Token = ""
    /\ cfg.AgentID # ""
    /\ cfg.Handle
    /\ fatal = <<>>
    /\ connNo = 0

\* C23: Logger.Fatalf ends the process: once main has logged with Fatalf, the
\* agent takes no further step; Run does not get past its entry, no dial is
\* made and no request is dispatched.
C23_FatalfEndsProcess ==
    fatal # <<>> => (pc \in {"start", "exited"} /\ connNo = 0 /\ ~Dispatching)

\* C24: a table.select with a non-empty orderBy is rejected by the REST
\* backend with an error, for every table, before any upstream HTTP request
\* is sent; the direct-SQL backend does not reject the same request when its
\* table and columns are in the registry: it issues its one QueryContext call.
C24_RestRejectsOrderBy ==
    (TableRequest /\ cur.method = "table.select" /\ cur.params.orderBy # <<>>) =>
        /\ cfg.SourceMode = "api" =>
              /\ calls = <<>>
              /\ pc # "backend"
              /\ Answered => (resp.Error.set /\ ~resp.Result.set)
              /\ (Answered /\ cfg.Handle) =>
                    resp.Error.Message = "orderBy is not supported in api mode"
        /\ (cfg.SourceMode = "direct" /\ cfg.Handle /\ ~UnknownIdentifier /\ pc # "handle") =>
              /\ plan.kind = "call"
              /\ Len(calls) = 1
              /\ calls[1].api = "QueryContext"

C24_Witness ==
    /\ cfg.SourceMode = "api"
    /\ cfg.Handle
    /\ pc = "done"
    /\ cur.method = "table.select"
    /\ cur.params.table = "UserData"
    /\ cur.params.filters = [Baid |-> Num(17)]
    /\ cur.params.orderBy = <<[Column |-> "Baid", Desc |-> FALSE]>>
    /\ resp.Error.Code = "db_error"
    /\ resp.Error.Message = "orderBy is not supported in api mode"
    /\ calls = <<>>
    /\ Len(out) = 1

\* the request being handled names a table/operation pair for which the REST
\* engine has no upstream endpoint
RestUnmapped ==
    /\ cur.dec
    /\ cur.params.ok
    /\ \/ /\ cur.method = "table.select"
          /\ cur.params.table \notin {"UserData", "SongBestData", "SongPlayData", "Card"}
       \/ /\ cur.method \in {"table.insert", "table.delete"}
          /\ cur.params.table # "Card"
       \/ cur.method = "table.update"
       \/ /\ cur.method = "query"
          /\ cur.params.name = "update_user_name"

\* the descriptive error of the pair being handled
NotSupportedMessage ==
    IF cur.method = "query" THEN "query not supported in api mode: update_user_name"
    ELSE cur.method \o " not supported in api mode for table: " \o cur.params.table

\* C25 as stated: on the REST backend every request for an unmapped
\* table/operation pair is answered with an error whose message contains
\* "not supported in api mode", and sends no upstream HTTP request, whatever
\* allowWrite is.
C25_RestUnmappedNotSupported ==
    (cfg.SourceMode = "api" /\ cfg.Handle /\ RestUnmapped) =>
        /\ calls = <<>>
        /\ pc # "backend"
        /\ Answered =>
              /\ resp.Error.set
              /\ resp.Error.Message \in
                    {NotSupportedMessage, "orderBy is not supported in api mode"}

\* C25 as the code has it: on the REST backend a request for an unmapped
\* table/operation pair sends no upstream HTTP request and is answered with an
\* error and no result.  With allowWrite = true the message is the "not
\* supported in api mode" message of the pair; with allowWrite = false the
\* mutating pairs (insert, update, delete, update_user_name) are answered
\* "write queries disabled" instead.  A table.select on an unmapped table is
\* answered "not supported in api mode" whatever allowWrite is (when it
\* carries an orderBy, with the message of C24).
C25_RestUnmappedRejected ==
    (cfg.SourceMode = "api" /\ cfg.Handle /\ RestUnmapped) =>
        /\ calls = <<>>
        /\ pc # "backend"
        /\ Answered =>
              /\ resp.Error.set
              /\ ~resp.Result.set
              /\ resp.Error.Code = "db_error"
              /\ resp.Error.Message =
                    IF cur.method # "table.select" /\ ~cfg.AllowWrite
                    THEN "write queries disabled"
                    ELSE IF cur.method = "table.select" /\ cur.params.orderBy # <<>>
                    THEN "orderBy is not supported in api mode"
                    ELSE NotSupportedMessage

C25_Witness ==
    /\ cfg.SourceMode = "api"
    /\ cfg.Handle
    /\ cfg.AllowWrite
    /\ pc = "done"
    /\ cur.method = "table.update"
    /\ cur.params.table = "Card"
    /\ cur.params.filters = [AccessCode |-> Str(<<"a">>)]
    /\ DOMAIN cur.params.values = {"Baid"}
    /\ resp.Error.Message = "table.update not supported in api mode for table: Card"
    /\ calls = <<>>
    /\ Len(out) = 1

\* C26: for every row list, every offset >= 0 and every limit >= 0 (each
\* possibly absent: no offset is offset 0, no limit is all remaining rows),
\* applyOffsetLimit returns the rows at positions offset+1 .. offset+limit of
\* its input, as far as they exist, in the input's order; limit 0 gives no row.
C26_OffsetThenLimit ==
    ( /\ sel.step = "done"
      /\ sel.offset.set => sel.offset.v >= 0
      /\ sel.limit.set => sel.limit.v >= 0 )
    => LET off == IF sel.offset.set THEN sel.offset.v ELSE 0
           avail == IF Len(sel.prev) > off THEN Len(sel.prev) - off ELSE 0
           n == IF sel.limit.set /\ sel.limit.v < avail THEN sel.limit.v ELSE avail
       IN  /\ Len(sel.rows) = n
           /\ \A i \in 1..n : sel.rows[i] = sel.prev[off + i]

C26_Witness ==
    /\ sel.step = "done"
    /\ Len(sel.prev) = 3
    /\ sel.prev[1] # sel.prev[2]
    /\ sel.prev[2] # sel.prev[3]
    /\ sel.offset = SomeInt(1)
    /\ sel.limit = SomeInt(1)
    /\ sel.rows = <<sel.prev[2]>>

\* a row passes when, for every key of the filter map, the row's value under
\* the key and the expected value are formatted to the same string
RowPasses(row, filters) ==
    \A k \in DOMAIN filters : FmtV(MapGet(row, k)) = FmtV(filters[k])

\* C27: applyFilterRows returns exactly the rows of its input that pass every
\* key of the filter map, in the input's order; with an empty filter map it
\* returns its input; the result is the same for every order in which the
\* keys of the map are visited.
C27_FilterIsConjunction ==
    sel.step = "filtered" =>
        LET Kept == {i \in 1..Len(sel.prev) : RowPasses(sel.prev[i], sel.filters)}
        IN  /\ Len(sel.rows) = Cardinality(Kept)
            /\ \A j \in 1..Len(sel.rows) :
                  sel.rows[j] =
                      sel.prev[CHOOSE i \in Kept : Cardinality({k \in Kept : k <= i}) = j]
            /\ DOMAIN sel.filters = {} => sel.rows = sel.prev

C27_Witness ==
    /\ sel.step = "filtered"
    /\ sel.filters = [AccessCode |-> Str(<<"a">>), Baid |-> Str(<<"1", "7">>)]
    /\ Len(sel.prev) = 3
    /\ sel.prev[1] = [Baid |-> Num(1)]
    /\ sel.prev[2].Baid = Num(17)
    /\ sel.prev[3].Baid = Str(<<"1", "7">>)
    /\ sel.rows = <<sel.prev[2], sel.prev[3]>>

\* the table request being handled is invalid: it names an unknown table or
\* column, or it is an update / delete without filters, or an insert / update
\* without values
InvalidRequest ==
    /\ TableRequest
    /\ \/ UnknownIdentifier
       \/ cur.method \in {"table.update", "table.delete"} /\ DOMAIN cur.params.filters = {}
       \/ cur.method \in {"table.insert", "table.update"} /\ DOMAIN cur.params.values = {}

\* the keys of a map that are not columns of the table
UnknownKeys(m, table) == {k \in DOMAIN m : k \notin TableSchemas[table]}

\* the least of them in byte order
LeastUnknownKey(m, table) ==
    CHOOSE k \in UnknownKeys(m, table) :
        \A j \in UnknownKeys(m, table) : ColRank(k) <= ColRank(j)

\* the first name of a list that is not a column of the table
FirstUnknownName(names, table) ==
    names[CHOOSE i \in 1..Len(names) :
            /\ names[i] \notin TableSchemas[table]
            /\ \A j \in 1..(i - 1) : names[j] \in TableSchemas[table]]

\* the message an invalid table request is answered with, as a function of
\* the request and the write flag alone
ValidationMessage ==
    LET p == cur.params
        t == p.table
        UnknownTable == "unknown table: " \o t
        UnknownColumn(c) == "unknown column: " \o c
    IN  CASE cur.method = "table.select" ->
                IF ~TableKnown(t) THEN UnknownTable
                ELSE IF \E c \in Range(p.columns) : c \notin TableSchemas[t]
                THEN UnknownColumn(FirstUnknownName(p.columns, t))
                ELSE IF UnknownKeys(p.filters, t) # {}
                THEN UnknownColumn(LeastUnknownKey(p.filters, t))
                ELSE UnknownColumn(
                        FirstUnknownName([i \in 1..Len(p.orderBy) |-> p.orderBy[i].Column], t))
          [] cur.method = "table.insert" ->
                IF ~cfg.AllowWrite THEN "write queries disabled"
                ELSE IF DOMAIN p.values = {} THEN "insert requires values"
                ELSE IF ~TableKnown(t) THEN UnknownTable
                ELSE UnknownColumn(LeastUnknownKey(p.values, t))
          [] cur.method = "table.update" ->
                IF ~cfg.AllowWrite THEN "write queries disabled"
                ELSE IF DOMAIN p.values = {} THEN "update requires values"
                ELSE IF ~TableKnown(t) THEN UnknownTable
                ELSE IF UnknownKeys(p.values, t) # {}
                THEN UnknownColumn(LeastUnknownKey(p.values, t))
                ELSE IF DOMAIN p.filters = {} THEN "update requires filters"
                ELSE UnknownColumn(LeastUnknownKey(p.filters, t))
          [] OTHER ->
                IF ~cfg.AllowWrite THEN "write queries disabled"
                ELSE IF DOMAIN p.filters = {} THEN "delete requires filters"
                ELSE IF ~TableKnown(t) THEN UnknownTable
                ELSE UnknownColumn(LeastUnknownKey(p.filters, t))

C29_OnlyRegisteredQueries ==
    /\ (cur.dec /\ cur.method = "query" /\ cur.params.ok
            /\ cur.params.name \notin DOMAIN Queries) =>
          /\ calls = <<>>
          /\ pc # "backend"
          /\ Answered => (resp.Error.set /\ ~resp.Result.set)
    /\ \A i \in 1..Len(calls) :
          (cur.method = "query" /\ calls[i].api \in {"QueryContext", "ExecContext"}) =>
              /\ cur.params.name \in DOMAIN Queries
              /\ calls[i].sql = Queries[cur.params.name].SQL

C29_Witness ==
    /\ cfg.SourceMode = "direct"
    /\ cfg.Handle
    /\ cfg.AllowWrite
    /\ pc = "done"
    /\ cur.method = "query"
    /\ cur.params.name = "drop_all"
    /\ cur.params.args = <<Str(<<"a">>)>>
    /\ resp.Error.Code = "db_error"
    /\ resp.Error.Message = "unknown query: drop_all"
    /\ calls = <<>>
    /\ Len(out) = 1

\* C30: on the direct-SQL backend with allowWrite = true, a valid mutating
\* request issues exactly one backend call, an ExecContext; a call that fails
\* is not issued again, and no request issues more than one call.
C30_MutationExecutesOnce ==
    cfg.SourceMode = "direct" =>
        /\ Len(calls) <= 1
        /\ (cfg.Handle /\ cfg.AllowWrite /\ MutatingRequest /\ ~InvalidRequest
                /\ pc \in {"backend", "write", "done"}) =>
              /\ Len(calls) = 1
              /\ calls[1].api = "ExecContext"
        /\ (Answered /\ resp.Error.set /\ resp.Error.Message = "backend error") =>
              Len(calls) = 1

C30_Witness ==
    /\ cfg.SourceMode = "direct"
    /\ cfg.Handle
    /\ cfg.AllowWrite
    /\ pc = "done"
    /\ cur.method = "table.delete"
    /\ cur.params.table = "Card"
    /\ cur.params.filters = [AccessCode |-> Str(<<"a">>)]
    /\ Len(calls) = 1
    /\ calls[1].api = "ExecContext"
    /\ calls[1].verb = "DELETE"
    /\ resp.Error.Message = "backend error"
    /\ Len(out) = 1

\* a is an initial part of b
IsPrefix(a, b) == Len(a) <= Len(b) /\ \A i \in 1..Len(a) : a[i] = b[i]

\* a frame handleMessage answers with an envelope
Answerable(f) == f.dec /\ f.method # ""

\* the ids of the frames of a sequence that are to be answered, in order
AnswerIds(frames) ==
    LET a == SelectSeq(frames, Answerable) IN [i \in 1..Len(a) |-> a[i].id]

\* C31: dispatch is serial on a connection: the frames are taken for
\* handleMessage in the order ReadMessage returned them, none skipped; at most
\* one operation is in flight, and it is the frame taken last; the envelopes
\* are written in the order of their requests, each before the next frame is
\* taken.
C31_SerialDispatch ==
    /\ IsPrefix(hist.disp, hist.recv)
    /\ inflight <= 1
    /\ inflight = 1 => (hist.disp # <<>> /\ cur = hist.disp[Len(hist.disp)])
    /\ IsPrefix([i \in 1..Len(hist.wrote) |-> hist.wrote[i].id], AnswerIds(hist.disp))
    /\ Len(hist.wrote) =
          Len(AnswerIds(hist.disp)) -
            (IF pc \in {"gotmsg", "handle", "backend", "write"} /\ Answerable(cur) THEN 1 ELSE 0)

C31_Witness ==
    /\ pc = "backend"
    /\ Len(hist.recv) = 3
    /\ Len(hist.disp) = 2
    /\ cur = hist.disp[2]
    /\ cur.id = "r2"
    /\ hist.wrote = <<[id |-> "r1", ok |-> TRUE]>>
    /\ readCh # <<>>
    /\ rd = "read"

\* handleMessage is running: the count has been incremented for it
Executing == pc \in {"handle", "backend", "write", "done"}

\* C32: an operation that is executing when BeginShutdown is called is not
\* dropped: the call of BeginShutdown leaves the operation, its context and
\* the in-flight count as they are; the operation goes on through its backend
\* call and its write to the decrement of the count, which it reaches; and
\* while an operation that began before the shutdown is executing,
\* WaitForInflight has not returned true.
C32_ShutdownKeepsInflight ==
    /\ [][(shutdown' /\ ~shutdown) =>
            UNCHANGED <<pc, ctxDone, inflight, msgCtx, cur, resp, plan, calls, effects, out, ret>>]_vars
    /\ [][(Executing /\ pc' # pc) =>
            /\ pc' \in {"backend", "write", "done", "select"}
            /\ pc' = "select" <=> pc = "done"
            /\ inflight' = IF pc = "done" THEN inflight - 1 ELSE inflight]_vars
    /\ []((Executing /\ msgCtx = "ctx") => ~(wfi.st = "returned" /\ wfi.result = "true"))
    /\ (shutdown /\ Executing) ~> (inflight = 0)

C32_Witness ==
    /\ shutdown
    /\ ~ctxDone
    /\ pc = "done"
    /\ msgCtx = "ctx"
    /\ Len(calls) = 1
    /\ resp.Result.set
    /\ ret = "writeErr"
    /\ inflight = 1
    /\ wfi.st = "waiting"
    /\ wfi.waiter = "blocked"
    /\ ~wfi.timer

\* C33: once WaitForInflight has returned true after BeginShutdown, no
\* dispatched operation is executing and none begins: the control loop does
\* not increment the in-flight count after that return.
C33_NoDispatchAfterWaitTrue ==
    /\ []((wfi.st = "returned" /\ wfi.result = "true") => (inflight = 0 /\ ~Executing))
    /\ [][(wfi.st = "returned" /\ wfi.result = "true") => inflight' <= inflight]_vars

\* C34: the reader started for a connection attempt terminates once the
\* attempt has ended, however connectOnce returned and whatever its channel
\* holds.
C34_ReaderTerminates == AttemptOver ~> (rd = "exit")

\* C35: a heartbeat tick that occurs while handleMessage is executing a
\* backend call is serviced without waiting for that call to finish: while
\* the call is in progress and the tick is waiting, the control loop can send
\* the ping.
C35_PingDuringCall == (pc = "backend" /\ tick = "inCall") => ENABLED SelectPing

\* the control loop is inside connectOnce, after a successful dial
Connected == pc \in {"register", "select", "gotmsg", "handle", "backend", "write", "done"}

C37_UndecodableFrameIsSkipped ==
    /\ []((Executing /\ ~cur.dec) =>
            /\ pc \in {"handle", "done"}
            /\ pc = "done" => ret = "decodeErr"
            /\ resp = NoEnvelope
            /\ calls = <<>>
            /\ effects = <<>>
            /\ out = <<>>
            /\ inflight = 1)
    /\ [][(Executing /\ ~cur.dec /\ pc' # pc) =>
            /\ pc = "handle" => pc' = "done"
            /\ pc = "done" => (pc' = "select" /\ inflight' = 0)
            /\ UNCHANGED <<files, connNo, aconn, sock, registered, rd, readCh, hist>>]_vars
    /\ [][(pc = "gotmsg" /\ pc' = "handle" /\ hist.disp # <<>> /\ cur.dec /\ ~hist.disp[1].dec) =>
            (inflight' = 1 /\ cur' = cur /\ cur = hist.recv[Len(hist.disp)])]_vars

C37_Witness ==
    /\ hist.disp = <<Garbage, Frame("r2", "query", QueryParams("list_cards", <<>>))>>
    /\ hist.wrote = <<[id |-> "r2", ok |-> TRUE]>>
    /\ pc = "done"
    /\ Len(calls) = 1
    /\ resp.Result.set
    /\ ret = "nil"
    /\ connNo = 1
    /\ sock = "open"

\* C38: in the REST backend with writes allowed, a table.insert on Card whose
\* values lack the AccessCode key, or the Baid key, is rejected with a
\* "Card insert requires ..." message and sends no upstream request; a bind
\* request carries the access code the caller supplied.
C38_CardInsertNeedsBoth ==
    (/\ cfg.SourceMode = "api"
     /\ cfg.Handle
     /\ cfg.AllowWrite
     /\ cur.dec
     /\ cur.method = "table.insert"
     /\ cur.params.ok
     /\ cur.params.table = "Card"
     /\ pc \in {"backend", "write", "done"})
    => /\ ("AccessCode" \notin DOMAIN cur.params.values \/ "Baid" \notin DOMAIN cur.params.values) =>
            /\ calls = <<>>
            /\ resp.Error.set
            /\ resp.Error.Message \in {"Card insert requires AccessCode", "Card insert requires Baid"}
       /\ \A i \in 1..Len(calls) :
            /\ "AccessCode" \in DOMAIN cur.params.values
            /\ cur.params.values["AccessCode"].t # "nil"
            /\ calls[i].body.accessCode = TrimSpace(FmtV(cur.params.values["AccessCode"]))

\* the SELECT statement of a table.select request up to its pagination
\* clause, written out from the request
SelectHead(p) ==
    LET keys == SortedKeys(p.filters)
    IN  "SELECT " \o (IF p.columns = <<>> THEN "*"
                      ELSE Join([i \in 1..Len(p.columns) |-> "\"" \o p.columns[i] \o "\""], ", "))
            \o " FROM \"" \o p.table \o "\""
            \o (IF keys = <<>> THEN ""
                ELSE " WHERE " \o Join([i \in 1..Len(keys) |-> "\"" \o keys[i] \o "\" = ?"], " AND "))
            \o (IF p.orderBy = <<>> THEN ""
                ELSE " ORDER BY " \o Join([i \in 1..Len(p.orderBy) |->
                                             "\"" \o p.orderBy[i].Column \o "\""
                                                 \o (IF p.orderBy[i].Desc THEN " DESC" ELSE " ASC")],
                                          ", "))

\* C39: every SELECT statement the direct-SQL TableSelect builds is well
\* formed in its pagination: after the ORDER BY part comes nothing, LIMIT ?,
\* or LIMIT ? OFFSET ?, never an OFFSET without a LIMIT before it, whichever
\* of limit and offset the request carries; and the bound parameters are the
\* filter values in sorted-key order, then the limit, then the offset, one
\* for each placeholder.
C39_PaginationWellFormed ==
    (/\ cfg.SourceMode = "direct"
     /\ cfg.Handle
     /\ cur.dec
     /\ cur.method = "table.select"
     /\ cur.params.ok
     /\ calls # <<>>)
    => LET p == cur.params
           c == calls[1]
           head == SelectHead(p)
           keys == SortedKeys(p.filters)
           fargs == [i \in 1..Len(keys) |-> p.filters[keys[i]]]
       IN  /\ c.sql \in {head, head \o " LIMIT ?", head \o " LIMIT ? OFFSET ?"}
           /\ c.sql = head => (~p.limit.set /\ ~p.offset.set /\ c.args = fargs)
           /\ c.sql = head \o " LIMIT ?" =>
                (p.limit.set /\ ~p.offset.set /\ c.args = fargs \o <<GoInt(p.limit.v)>>)
           /\ c.sql = head \o " LIMIT ? OFFSET ?" =>
                (p.limit.set /\ p.offset.set
                   /\ c.args = fargs \o <<GoInt(p.limit.v), GoInt(p.offset.v)>>)

====
